---- MODULE Spec2Model ----
(***************************************************************************)
(* zist: ingestion of ZSH history files into the commands table.           *)
(*                                                                         *)
(* Text is a sequence of one-character strings, so that the string         *)
(* functions of the parser (HasPrefix, SplitN, TrimSpace, ParseInt) are    *)
(* computed character by character as the Go code computes them.           *)
(* A timestamp (float64 seconds in the code) is an integer number of       *)
(* thousandths of a second: the code only ever forms                       *)
(* float64(seconds) + float64(index) * 0.001, and float64 keeps such       *)
(* values distinct for every |seconds| < 2^43, far beyond the integers     *)
(* used here.                                                              *)
(***************************************************************************)
EXTENDS Integers, Sequences, FiniteSets, TLC

VARIABLES
    file,       \* SpecParse: the lines of the history file being parsed
    scanned,    \* SpecParse: number of lines the scanner has returned
    p,          \* SpecParse: the locals of ParseHistoryFile
    phase,      \* SpecParse: "scan", "subsec", "done" or "failed"
    history,    \* SpecParse: the History returned (Commands), <<>> before
    rows,       \* the commands table: a set of rows
    fts,        \* the commands_fts index: a set of (rowid, command) entries
    call,       \* SpecStore: the last InsertCommands / InsertCommandsBatch call
    runs,       \* SpecCollect: number of collect runs so far
    last,       \* SpecCollect: what the last collect run read and reported
    ingested,   \* SpecCollect: per source, the file content last ingested
    search,     \* SpecSearch: the last SearchCommands call and what it returned
    stats,      \* the last GetDBStats call and what it returned
    cache,      \* the wizard_cache table: a set of entries
    cop,        \* SpecCache: the last wizard_cache call
    sets,       \* SpecCache: the SetWizardCache calls that succeeded, in order,
                \*            since the entries of their keys were last removed
    gen,        \* SpecWizard: the Generate call in progress
    cli,        \* SpecCli: the last run of a subcommand of the program
    ctx,        \* SpecKeywords, SpecContext: the last extractKeywords or
                \*            gatherHistoryContext call and what it returned
    collectors  \* SpecConcurrent: the write lock of the store and the two
                \*            collect runs in progress

vars == <<file, scanned, p, phase, history, rows, fts, call, runs, last,
          ingested, search, stats, cache, cop, sets, gen, cli, ctx,
          collectors>>

parseVars == <<file, scanned, p, phase, history>>
storeVars == <<rows, fts, call>>
collectVars == <<runs, last, ingested>>
searchVars == <<search, stats>>
cacheVars == <<cache, cop, sets>>
wizardVars == <<gen, cli, ctx, collectors>>

\* ------------------------------------------------------------------ bounds

\* Longest history file (in lines) drawn by InitParse.
MaxLines == 3

\* Longest command list handed to InsertCommands / InsertCommandsBatch.
MaxBatch == 2

\* Number of collect runs explored.
MaxRuns == 3

\* Longest list of records stored before the searches of SpecSearch.
MaxStored == 3

\* Number of successful SetWizardCache calls explored.
MaxSets == 3

\* Number of successful CacheCommand calls explored in SpecWizard.
MaxCached == 2

\* Number of operations in a behaviour of SpecZist.
MaxOps == 2

\* Number of paths given to one collect run of SpecCli.
MaxPaths == 2

\* Number of subcommands run in a behaviour of SpecCli.
MaxCliRuns == 2

\* Longest text (in characters) extractKeywords is called with in SpecKeywords.
MaxText == 5

\* Number of history files the two collect runs of SpecConcurrent go through.
MaxFiles == 3

\* ------------------------------------------------------------ text helpers

Digits == <<"0", "1", "2", "3", "4", "5", "6", "7", "8", "9">>

IsDigit(c) == \E i \in 1..10 : Digits[i] = c

DigitVal(c) == (CHOOSE i \in 1..10 : Digits[i] = c) - 1

\* unicode.IsSpace on the characters that occur here.
IsSpace(c) == c \in {" ", "\t", "\n", "\r"}

\* strings.HasPrefix
HasPrefix(s, prefix) ==
    /\ Len(s) >= Len(prefix)
    /\ SubSeq(s, 1, Len(prefix)) = prefix

\* strings.Index for a one-character separator: 0 when absent.
IndexOf(s, c) ==
    IF \E i \in 1..Len(s) : s[i] = c
    THEN CHOOSE i \in 1..Len(s) : s[i] = c /\ \A j \in 1..(i - 1) : s[j] # c
    ELSE 0

\* strings.SplitN(s, sep, 2): one field when sep is absent, else the text
\* before the first sep and everything after it.
SplitN2(s, sep) ==
    LET i == IndexOf(s, sep)
    IN  IF i = 0 THEN <<s>>
        ELSE <<SubSeq(s, 1, i - 1), SubSeq(s, i + 1, Len(s))>>

\* strings.TrimSpace
TrimSpace(s) ==
    IF \A i \in 1..Len(s) : IsSpace(s[i]) THEN <<>>
    ELSE LET lo == CHOOSE i \in 1..Len(s) :
                      ~IsSpace(s[i]) /\ \A j \in 1..(i - 1) : IsSpace(s[j])
             hi == CHOOSE i \in 1..Len(s) :
                      ~IsSpace(s[i]) /\ \A j \in (i + 1)..Len(s) : IsSpace(s[j])
         IN  SubSeq(s, lo, hi)

RECURSIVE DecimalValue(_)
DecimalValue(ds) ==
    IF ds = <<>> THEN 0
    ELSE 10 * DecimalValue(SubSeq(ds, 1, Len(ds) - 1)) + DigitVal(ds[Len(ds)])

\* strconv.ParseInt(s, 10, 64) and strconv.Atoi: an optional sign followed by
\* at least one digit and nothing else; anything else is an error.
ParseInt(s) ==
    LET signed == Len(s) > 0 /\ s[1] \in {"+", "-"}
        ds     == IF signed THEN Tail(s) ELSE s
        ok     == Len(ds) > 0 /\ \A i \in 1..Len(ds) : IsDigit(ds[i])
    IN  [ok  |-> ok,
         val |-> IF ~ok THEN 0
                 ELSE IF signed /\ s[1] = "-" THEN 0 - DecimalValue(ds)
                 ELSE DecimalValue(ds)]

\* strings.ToLower on the letters that occur here in upper case.
UpperCase == <<"A", "G", "S", "T">>

LowerCase == <<"a", "g", "s", "t">>

ToLowerChar(c) ==
    IF \E i \in 1..Len(UpperCase) : UpperCase[i] = c
    THEN LowerCase[CHOOSE i \in 1..Len(UpperCase) : UpperCase[i] = c]
    ELSE c

ToLower(s) == [i \in 1..Len(s) |-> ToLowerChar(s[i])]

\* strings.Fields: the maximal runs of characters that are not white space.
RECURSIVE FieldsFrom(_, _, _)
FieldsFrom(s, cur, acc) ==
    IF s = <<>> THEN (IF cur = <<>> THEN acc ELSE Append(acc, cur))
    ELSE IF IsSpace(Head(s))
    THEN FieldsFrom(Tail(s), <<>>, IF cur = <<>> THEN acc ELSE Append(acc, cur))
    ELSE FieldsFrom(Tail(s), Append(cur, Head(s)), acc)

Fields(s) == FieldsFrom(s, <<>>, <<>>)

\* strings.Join
RECURSIVE Join(_, _)
Join(parts, sep) ==
    IF parts = <<>> THEN <<>>
    ELSE IF Len(parts) = 1 THEN parts[1]
    ELSE (parts[1] \o sep) \o Join(Tail(parts), sep)

\* ------------------------------------------------------------- timestamps

\* Thousandths per second: the 0.001 step of addSubsecondTimestamps.
Milli == 1000

\* float64(n) for an int64 number of seconds.
Float64OfInt(n) == n * Milli

\* int64(f): truncation toward zero.
Int64OfFloat(f) == IF f >= 0 THEN f \div Milli ELSE 0 - ((0 - f) \div Milli)

\* ------------------------------------------------------------------ lines

\* bufio.MaxScanTokenSize: the scanner gives up on a line that fills its
\* buffer before the line ends.
MaxScanTokenSize == 65536

LongLine == [i \in 1..MaxScanTokenSize |-> "a"]

\* The lines history files are drawn from.
Lines ==
    { <<":", " ", "1", ":", "0", ";", "a">>,        \* header, second 1
      <<":", " ", "1", ":", "5", ";", "b">>,        \* header, second 1, duration 5
      <<":", " ", "2", ":", "0", ";", "a">>,        \* header, second 2
      <<":", " ", "1", ":", "0", ";">>,             \* header, empty first line
      <<":", " ", "2", ":", "0", ";", " ">>,        \* header, blank first line
      <<":", " ", "x">>,                            \* prefix, no ';'
      <<":", " ", "1", ";", "a">>,                  \* prefix, no ':' before ';'
      <<":", " ", "x", ":", "y", ";", "b">>,        \* prefix, fields not numeric
      <<"b">>,                                      \* plain text
      <<" ", "c", " ">>,                            \* text with blanks around
      <<>>,                                         \* empty line
      LongLine }

RECURSIVE SeqsUpTo(_, _)
SeqsUpTo(S, n) ==
    IF n = 0 THEN {<<>>}
    ELSE LET shorter == SeqsUpTo(S, n - 1)
         IN  shorter \cup {Append(s, x) : s \in shorter, x \in S}

\* ----------------------------------------------------------------- parser

NewCommand(source, timestamp, command, duration) ==
    [Source |-> source, Timestamp |-> timestamp, Command |-> command,
     Duration |-> duration, CWD |-> "", ExitCode |-> 0]

\* The locals of ParseHistoryFile before the first line.
ParserStart ==
    [Commands |-> <<>>, currentCommand |-> <<>>, currentTimestamp |-> 0,
     currentDuration |-> 0, hasCommand |-> FALSE]

\* The append of the open command to history.Commands, inside the loop and
\* after it.
EmitOpen(st, absPath) ==
    IF st.hasCommand /\ Len(st.currentCommand) > 0
    THEN [st EXCEPT !.Commands =
              Append(@, NewCommand(absPath, Float64OfInt(st.currentTimestamp),
                                   TrimSpace(st.currentCommand),
                                   st.currentDuration))]
    ELSE st

\* One iteration of the scanner loop of ParseHistoryFile.
ScanLine(st, absPath, line) ==
    IF HasPrefix(line, <<":", " ">>)
    THEN LET flushed == IF st.hasCommand /\ Len(st.currentCommand) > 0
                        THEN [EmitOpen(st, absPath) EXCEPT !.currentCommand = <<>>]
                        ELSE st
             metaAndCmd == SplitN2(SubSeq(line, 3, Len(line)), ";")
         IN  IF Len(metaAndCmd) # 2 THEN flushed
             ELSE LET timeAndDuration == SplitN2(metaAndCmd[1], ":")
                  IN  IF Len(timeAndDuration) # 2 THEN flushed
                      ELSE LET timestamp == ParseInt(timeAndDuration[1])
                               duration  == ParseInt(timeAndDuration[2])
                           IN  [flushed EXCEPT
                                  !.currentTimestamp =
                                      IF timestamp.ok THEN timestamp.val ELSE @,
                                  !.currentDuration =
                                      IF duration.ok THEN duration.val ELSE @,
                                  !.currentCommand = @ \o metaAndCmd[2],
                                  !.hasCommand = TRUE]
    ELSE IF st.hasCommand
    THEN [st EXCEPT !.currentCommand = (@ \o <<"\n">>) \o line]
    ELSE st

\* bufio.Scanner: a line of MaxScanTokenSize bytes or more ends the scan with
\* ErrTooLong.
TooLong(line) == Len(line) >= MaxScanTokenSize

\* Mutant of SubsecondStep: the counter is forgotten when the second
\* changes, so only adjacent records of a second are told apart.
SubsecondStepAdjacent(acc, cmd) ==
    LET ts    == Int64OfFloat(cmd.Timestamp)
        index == IF ts \in DOMAIN acc.timestampMap THEN acc.timestampMap[ts] ELSE 0
    IN  [timestampMap |-> [t \in {ts} |-> index + 1],
         result |->
             Append(acc.result,
                    [Source |-> cmd.Source, Timestamp |-> Float64OfInt(ts) + index,
                     Command |-> cmd.Command, Duration |-> cmd.Duration,
                     CWD |-> cmd.CWD, ExitCode |-> cmd.ExitCode])]

\* Mutant of SubsecondStep: the index is counted but not added.
SubsecondStepNoOffset(acc, cmd) ==
    LET ts    == Int64OfFloat(cmd.Timestamp)
        index == IF ts \in DOMAIN acc.timestampMap THEN acc.timestampMap[ts] ELSE 0
    IN  [timestampMap |->
             [t \in DOMAIN acc.timestampMap \cup {ts} |->
                 IF t = ts THEN index + 1 ELSE acc.timestampMap[t]],
         result |->
             Append(acc.result,
                    [Source |-> cmd.Source, Timestamp |-> Float64OfInt(ts),
                     Command |-> cmd.Command, Duration |-> cmd.Duration,
                     CWD |-> cmd.CWD, ExitCode |-> cmd.ExitCode])]

\* One iteration of the loop of addSubsecondTimestamps: timestampMap counts
\* the commands seen so far per integer second; the command is copied with
\* float64(ts) + float64(index) * 0.001 as its timestamp.
SubsecondStep(acc, cmd) ==
    LET ts    == Int64OfFloat(cmd.Timestamp)
        index == IF ts \in DOMAIN acc.timestampMap THEN acc.timestampMap[ts] ELSE 0
    IN  [timestampMap |->
             [t \in DOMAIN acc.timestampMap \cup {ts} |->
                 IF t = ts THEN index + 1 ELSE acc.timestampMap[t]],
         result |->
             Append(acc.result,
                    [Source |-> cmd.Source, Timestamp |-> Float64OfInt(ts) + index,
                     Command |-> cmd.Command, Duration |-> cmd.Duration,
                     CWD |-> cmd.CWD, ExitCode |-> cmd.ExitCode])]

RECURSIVE SubsecondLoop(_, _)
SubsecondLoop(acc, cmds) ==
    IF cmds = <<>> THEN acc
    ELSE SubsecondLoop(SubsecondStep(acc, Head(cmds)), Tail(cmds))

\* addSubsecondTimestamps
AddSubsecondTimestamps(cmds) ==
    SubsecondLoop([timestampMap |-> <<>>, result |-> <<>>], cmds).result

\* The scanner loop over all lines: it stops at the first line that is too long.
RECURSIVE ScanAll(_, _, _)
ScanAll(st, absPath, lines) ==
    IF lines = <<>> THEN [st |-> st, err |-> FALSE]
    ELSE IF TooLong(Head(lines)) THEN [st |-> st, err |-> TRUE]
    ELSE ScanAll(ScanLine(st, absPath, Head(lines)), absPath, Tail(lines))

\* ParseHistoryFile on a file that can be opened: (nil, error) on a scanner
\* error, else the emitted commands with subsecond timestamps.
ParseHistoryFile(absPath, content) ==
    LET r == ScanAll(ParserStart, absPath, content)
    IN  IF r.err THEN [err |-> TRUE, Commands |-> <<>>]
        ELSE [err |-> FALSE,
              Commands |-> AddSubsecondTimestamps(EmitOpen(r.st, absPath).Commands)]

\* ------------------------------------------------------------------ store

\* PRIMARY KEY (source, timestamp) of the commands table.
SameKey(r, cmd) == r.Source = cmd.Source /\ r.Timestamp = cmd.Timestamp

KeyIn(tbl, cmd) == \E r \in tbl : SameKey(r, cmd)

\* The rowid of a row of commands. The table has no INTEGER PRIMARY KEY, so
\* SQLite gives each row an implicit rowid; rows are never re-keyed, so the
\* rowid stands one-to-one for the row's primary key.
RowId(row) == <<row.Source, row.Timestamp>>

\* Mutant of TriggerAI: the inserted row is not indexed.
TriggerAINone(index, new) == index

\* Trigger commands_ai: AFTER INSERT, the new row's text is indexed under its
\* rowid.
TriggerAI(index, new) ==
    index \cup {[rowid |-> RowId(new), command |-> new.Command]}

\* Trigger commands_ad: AFTER DELETE, the 'delete' command removes the entry
\* of the old rowid and text.
TriggerAD(index, old) ==
    index \ {[rowid |-> RowId(old), command |-> old.Command]}

\* Trigger commands_au: AFTER UPDATE, the old entry is removed and the new
\* text is indexed.
TriggerAU(index, old, new) == TriggerAI(TriggerAD(index, old), new)

\* Mutant of ExecInsert: the table has no primary key, every row is added.
ExecInsertNoKey(tx, cmd) ==
    [tx EXCEPT !.rows = @ \cup {cmd}, !.fts = TriggerAI(@, cmd),
               !.rowsAffected = 1]

\* Mutant of ExecInsert: INSERT OR REPLACE, the row of an existing key is
\* replaced by the new one.
ExecInsertOrReplace(tx, cmd) ==
    LET old == {r \in tx.rows : SameKey(r, cmd)}
    IN  [tx EXCEPT !.rows = (@ \ old) \cup {cmd},
                   !.fts = (@ \ {[rowid |-> RowId(r), command |-> r.Command]
                                    : r \in old})
                           \cup {[rowid |-> RowId(cmd), command |-> cmd.Command]},
                   !.rowsAffected = 1]

\* stmt.Exec of INSERT OR IGNORE INTO commands inside the transaction: a row
\* whose key exists is left alone and affects no row; it is no error. An
\* inserted row fires the trigger commands_ai in the same transaction.
ExecInsert(tx, cmd) ==
    IF KeyIn(tx.rows, cmd)
    THEN [tx EXCEPT !.rowsAffected = 0]
    ELSE [tx EXCEPT !.rows = @ \cup {cmd}, !.fts = TriggerAI(@, cmd),
                    !.rowsAffected = 1]

\* Mutant of InsertLoop: every executed insert is counted, whatever
\* RowsAffected says.
RECURSIVE InsertLoopCountsAll(_, _, _, _)
InsertLoopCountsAll(tx, commands, n, fault) ==
    IF n = Len(commands) THEN tx
    ELSE IF fault = n + 1 THEN [tx EXCEPT !.failed = TRUE]
    ELSE LET t == ExecInsert(tx, commands[n + 1])
         IN  IF t.failed THEN t
             ELSE InsertLoopCountsAll([t EXCEPT !.inserted = @ + 1],
                                      commands, n + 1, fault)

\* The loop of InsertCommands over commands[n+1..]. fault = k > 0 makes the
\* k-th stmt.Exec return an error (a store error: disk, lock).
RECURSIVE InsertLoop(_, _, _, _)
InsertLoop(tx, commands, n, fault) ==
    IF n = Len(commands) THEN tx
    ELSE IF fault = n + 1 THEN [tx EXCEPT !.failed = TRUE]
    ELSE LET t == ExecInsert(tx, commands[n + 1])
         IN  IF t.failed THEN t
             ELSE InsertLoop([t EXCEPT !.inserted =
                                  IF t.rowsAffected > 0 THEN @ + 1 ELSE @],
                             commands, n + 1, fault)

\* Mutant of Rollback: the writes of the failed transaction stay.
RollbackKeepsWrites(db, tx) == [rows |-> tx.rows, fts |-> tx.fts]

\* defer tx.Rollback(): the table and the index are what they were when the
\* transaction began.
Rollback(db, tx) == db

\* InsertCommands(db, commands), db being the commands table and its index
\* [rows, fts]. fault: 0 none, k in 1..Len(commands) the k-th Exec fails (a
\* failing Begin or Prepare leaves the same result as k = 1),
\* Len(commands) + 1 the Commit fails.
InsertCommands(db, commands, fault) ==
    IF Len(commands) = 0
    THEN [rows |-> db.rows, fts |-> db.fts, inserted |-> 0, ignored |-> 0,
          err |-> FALSE]
    ELSE LET tx == InsertLoop([rows |-> db.rows, fts |-> db.fts,
                               rowsAffected |-> 0, inserted |-> 0,
                               failed |-> FALSE], commands, 0, fault)
         IN  IF tx.failed \/ fault = Len(commands) + 1
             THEN LET back == Rollback(db, tx)
                  IN  [rows |-> back.rows, fts |-> back.fts, inserted |-> 0,
                       ignored |-> 0, err |-> TRUE]
             ELSE [rows |-> tx.rows, fts |-> tx.fts, inserted |-> tx.inserted,
                   ignored |-> Len(commands) - tx.inserted, err |-> FALSE]

\* batchSize <= 0 is replaced by 100.
DefaultBatchSize == 100

EffectiveBatchSize(batchSize) ==
    IF batchSize <= 0 THEN DefaultBatchSize ELSE batchSize

\* Mutant of BatchLoop: only full sub-batches are inserted, a shorter last
\* one is left out.
RECURSIVE BatchLoopFullOnly(_, _, _, _, _)
BatchLoopFullOnly(acc, commands, batchSize, i, fault) ==
    IF i + batchSize > Len(commands) THEN acc
    ELSE LET batch == SubSeq(commands, i + 1, i + batchSize)
             r     == InsertCommands([rows |-> acc.rows, fts |-> acc.fts], batch,
                          IF fault[1] = (i \div batchSize) + 1 THEN fault[2] ELSE 0)
         IN  IF r.err
             THEN [acc EXCEPT !.rows = r.rows, !.fts = r.fts, !.err = TRUE]
             ELSE BatchLoopFullOnly([rows |-> r.rows, fts |-> r.fts,
                                     inserted |-> acc.inserted + r.inserted,
                                     ignored |-> acc.ignored + r.ignored,
                                     err |-> FALSE],
                                    commands, batchSize, i + batchSize, fault)

\* The loop of InsertCommandsBatch from offset i. fault = <<j, k>>: the j-th
\* sub-batch's InsertCommands meets fault k; <<0, 0>> none.
RECURSIVE BatchLoop(_, _, _, _, _)
BatchLoop(acc, commands, batchSize, i, fault) ==
    IF i >= Len(commands) THEN acc
    ELSE LET end   == IF i + batchSize > Len(commands)
                      THEN Len(commands) ELSE i + batchSize
             batch == SubSeq(commands, i + 1, end)
             r     == InsertCommands([rows |-> acc.rows, fts |-> acc.fts], batch,
                          IF fault[1] = (i \div batchSize) + 1 THEN fault[2] ELSE 0)
         IN  IF r.err
             THEN [acc EXCEPT !.rows = r.rows, !.fts = r.fts, !.err = TRUE]
             ELSE BatchLoop([rows |-> r.rows, fts |-> r.fts,
                             inserted |-> acc.inserted + r.inserted,
                             ignored |-> acc.ignored + r.ignored,
                             err |-> FALSE],
                            commands, batchSize, i + batchSize, fault)

\* InsertCommandsBatch(db, commands, batchSize)
InsertCommandsBatch(db, commands, batchSize, fault) ==
    IF Len(commands) = 0
    THEN [rows |-> db.rows, fts |-> db.fts, inserted |-> 0, ignored |-> 0,
          err |-> FALSE]
    ELSE BatchLoop([rows |-> db.rows, fts |-> db.fts, inserted |-> 0,
                    ignored |-> 0, err |-> FALSE],
                   commands, EffectiveBatchSize(batchSize), 0, fault)

NoFault == <<0, 0>>

\* The faults a call over commands in sub-batches of size b can meet.
Faults(commands, b) ==
    {NoFault} \cup
    {<<j, k>> \in (1..Len(commands)) \X (1..(Len(commands) + 1)) :
        /\ (j - 1) * b < Len(commands)
        /\ k <= (IF j * b > Len(commands) THEN Len(commands) - (j - 1) * b ELSE b) + 1}

\* ----------------------------------------------------------------- search

\* The chain of strings.ReplaceAll of escapeFTS on one character: quotes and
\* the backslash are doubled, parentheses and the colon are removed.
EscapeChar(c) ==
    IF c \in {"\"", "'", "\\"} THEN <<c, c>>
    ELSE IF c \in {"(", ")", ":"} THEN <<>>
    ELSE <<c>>

RECURSIVE escapeFTS(_)
escapeFTS(s) ==
    IF s = <<>> THEN <<>> ELSE EscapeChar(Head(s)) \o escapeFTS(Tail(s))

\* buildFTSQuery: every field of the trimmed query, escaped and followed by
\* "*", joined with one blank.
buildFTSQuery(query) ==
    LET parts == Fields(TrimSpace(query))
    IN  Join([i \in 1..Len(parts) |-> Append(escapeFTS(parts[i]), "*")], <<" ">>)

\* The characters the FTS5 tokenizer (unicode61) and the FTS5 query grammar
\* take as part of a word: here, everything but white space and punctuation.
Punctuation == {"-", "(", ")", ":", ";", "*", "\"", "'", "\\", "."}

IsTokenChar(c) == ~IsSpace(c) /\ c \notin Punctuation

\* The tokens FTS5 indexes for a text: its maximal runs of word characters,
\* in lower case.
FTSTokens(text) ==
    {ToLower(SubSeq(text, i, j)) : <<i, j>> \in
        {ij \in (1..Len(text)) \X (1..Len(text)) :
            /\ ij[1] <= ij[2]
            /\ \A k \in ij[1]..ij[2] : IsTokenChar(text[k])
            /\ (ij[1] = 1 \/ ~IsTokenChar(text[ij[1] - 1]))
            /\ (ij[2] = Len(text) \/ ~IsTokenChar(text[ij[2] + 1]))}}

\* An FTS5 bareword followed by "*": a prefix term.
IsPrefixTerm(part) ==
    /\ Len(part) >= 2
    /\ part[Len(part)] = "*"
    /\ \A k \in 1..(Len(part) - 1) : IsTokenChar(part[k])
    /\ SubSeq(part, 1, Len(part) - 1) \notin
           {<<"A", "N", "D">>, <<"O", "R">>, <<"N", "O", "T">>}

\* commands_fts MATCH expr as FTS5 reads the expressions formed here: one or
\* more prefix terms separated by white space are a conjunction, terms
\* separated by OR a disjunction; an empty expression, a lone "*" and a term
\* with punctuation in it are errors.
FTSParse(expr) ==
    LET parts == Fields(expr)
        words == {i \in 1..Len(parts) : parts[i] # <<"O", "R">>}
        isOr  == \E i \in 1..Len(parts) : parts[i] = <<"O", "R">>
    IN  [ok    |-> /\ Len(parts) > 0
                   /\ \A i \in words : IsPrefixTerm(parts[i])
                   /\ \A i \in 1..Len(parts) :
                         parts[i] = <<"O", "R">> <=> (isOr /\ i % 2 = 0)
                   /\ Len(parts) % 2 = 1 \/ ~isOr,
         any   |-> isOr,
         terms |-> {ToLower(SubSeq(parts[i], 1, Len(parts[i]) - 1)) : i \in words}]

\* The rowids of the index entries an expression that parses matches.
FTSMatch(index, q) ==
    {e.rowid : e \in {x \in index :
        LET hit(term) == \E tok \in FTSTokens(x.command) : HasPrefix(tok, term)
        IN  IF q.any THEN \E term \in q.terms : hit(term)
            ELSE \A term \in q.terms : hit(term)}}

\* if opts.Limit <= 0 { opts.Limit = 500 }
DefaultSearchLimit == 500

EffectiveLimit(limit) == IF limit <= 0 THEN DefaultSearchLimit ELSE limit

\* The rows the WHERE clause built by SearchCommands selects.
SearchWhere(db, opts, q) ==
    {r \in db.rows :
        /\ opts.Query # <<>> => RowId(r) \in FTSMatch(db.fts, q)
        /\ opts.Since > 0 => r.Timestamp >= opts.Since
        /\ opts.Until > 0 => r.Timestamp <= opts.Until}

\* Mutant of OrderByTimestampDesc: ascending order.
OrderByTimestampAsc(S) ==
    {o \in [1..Cardinality(S) -> S] :
        /\ \A i, j \in 1..Cardinality(S) : o[i] = o[j] => i = j
        /\ \A i, j \in 1..Cardinality(S) : i < j => o[i].Timestamp <= o[j].Timestamp}

\* ORDER BY timestamp DESC: every listing of the rows with no earlier row of a
\* smaller timestamp; rows of equal timestamp come in an order SQL leaves open.
OrderByTimestampDesc(S) ==
    {o \in [1..Cardinality(S) -> S] :
        /\ \A i, j \in 1..Cardinality(S) : o[i] = o[j] => i = j
        /\ \A i, j \in 1..Cardinality(S) : i < j => o[i].Timestamp >= o[j].Timestamp}

\* LIMIT n
SqlLimit(o, n) == SubSeq(o, 1, IF Len(o) < n THEN Len(o) ELSE n)

SearchResult(r) ==
    [Command |-> r.Command, Source |-> r.Source, Timestamp |-> r.Timestamp]

\* SearchCommands(db, opts): the result lists the query can return, or an
\* error when the MATCH expression does not parse.
SearchCommands(db, opts) ==
    LET q == FTSParse(buildFTSQuery(opts.Query))
    IN  IF opts.Query # <<>> /\ ~q.ok
        THEN [err |-> TRUE, results |-> {<<>>}]
        ELSE [err |-> FALSE,
              results |->
                  {[i \in 1..Len(l) |-> SearchResult(l[i])] :
                      l \in {SqlLimit(o, EffectiveLimit(opts.Limit)) :
                                o \in OrderByTimestampDesc(SearchWhere(db, opts, q))}}]

\* ------------------------------------------------------- SpecStore actions

\* The records the store calls are made with: two that share a key and differ
\* in text, and one of another source with the same timestamp.
StoreCommands ==
    { NewCommand("/h/a", Float64OfInt(1), <<"a">>, 0),
      NewCommand("/h/a", Float64OfInt(1), <<"b">>, 0),
      NewCommand("/h/b", Float64OfInt(1), <<"a">>, 0) }

BatchSizes == {0, 1, 2}

NoFirst == [pre |-> {}, inserted |-> 0, ignored |-> 0]

NoCall ==
    [op |-> "none", commands |-> <<>>, batchSize |-> 0, fault |-> NoFault,
     pre |-> {}, inserted |-> 0, ignored |-> 0, err |-> FALSE,
     repeat |-> FALSE, first |-> NoFirst]

ParseIdle ==
    /\ file = <<>>
    /\ scanned = 0
    /\ p = ParserStart
    /\ phase = "idle"
    /\ history = <<>>

NoRun ==
    [path |-> "", source |-> "", content |-> <<>>, parseErr |-> FALSE,
     parsed |-> <<>>, pre |-> {}, inserted |-> 0, ignored |-> 0,
     insertErr |-> FALSE, hadPrev |-> FALSE, prev |-> <<>>]

CollectIdle ==
    /\ runs = 0
    /\ last = NoRun
    /\ ingested = <<>>

\* No search made, the wizard_cache table empty and unused, no Generate call.
NoSearch ==
    [op |-> "none", opts |-> [Query |-> <<>>, Limit |-> 0, Since |-> 0, Until |-> 0],
     results |-> <<>>, err |-> FALSE]

NoCacheOp ==
    [op |-> "none", query |-> <<>>, command |-> <<>>, now |-> 0, pre |-> {},
     found |-> {}, err |-> FALSE]

\* No call of w.llm.Complete was made.
NoCompletion == [err |-> FALSE, text |-> <<>>, elapsed |-> 0]

NoGenerate ==
    [op |-> "none", query |-> <<>>, llm |-> FALSE, fault |-> FALSE,
     timeout |-> 0, completion |-> NoCompletion, pre |-> {}, cached |-> {}, lookups |-> 0,
     calls |-> 0, resp |-> {}, err |-> ""]

NoStats ==
    [op |-> "none", total_commands |-> 0, total_sources |-> 0, sources |-> {},
     err |-> FALSE]

SearchIdle == search = NoSearch /\ stats = NoStats

CacheIdle == cache = {} /\ cop = NoCacheOp /\ sets = <<>>

\* No subcommand has run.
NoCli ==
    [op |-> "none", mode |-> "", query |-> <<>>, args |-> <<>>,
     faults |-> <<>>, quiet |-> FALSE, trace |-> <<>>, opened |-> 0,
     closed |-> 0, storeErr |-> FALSE, pick |-> 0, ret |-> "", out |-> <<>>,
     seq |-> 0]

\* Neither extractKeywords nor gatherHistoryContext has been called.
NoContext ==
    [op |-> "none", query |-> <<>>, keywords |-> <<>>, fault |-> FALSE,
     pre |-> {}, context |-> <<>>]

\* The two collect runs the shell hook started, before their first file:
\* file is the number of the file a run is at, intx says that its transaction
\* holds the write lock, failed are the files whose insert failed.
NoCollectors ==
    [lock |-> 0,
     run  |-> [r \in 1..2 |-> [file |-> 1, intx |-> FALSE, inserted |-> 0,
                               ignored |-> 0, failed |-> {}, done |-> FALSE]]]

WizardIdle ==
    gen = NoGenerate /\ cli = NoCli /\ ctx = NoContext /\ collectors = NoCollectors

\* InitDB on a new file: CreateSchema leaves the table and the index empty.
EmptyDB == rows = {} /\ fts = {}

\* The commands table with its index, as the insert functions take it.
DB == [rows |-> rows, fts |-> fts]

InitStore ==
    /\ EmptyDB
    /\ call = NoCall
    /\ ParseIdle
    /\ CollectIdle
    /\ SearchIdle
    /\ CacheIdle
    /\ WizardIdle

\* A call of InsertCommands(db, commands) that meets the given fault.
InsertCommandsOf(commands, fault) ==
        LET r == InsertCommands(DB, commands, fault[2])
        IN  /\ rows' = r.rows
            /\ fts' = r.fts
            /\ call' = [op |-> "InsertCommands", commands |-> commands,
                        batchSize |-> 0, fault |-> fault, pre |-> rows,
                        inserted |-> r.inserted, ignored |-> r.ignored,
                        err |-> r.err, repeat |-> FALSE, first |-> NoFirst]
            /\ UNCHANGED <<parseVars, collectVars, searchVars, cacheVars, wizardVars>>

\* A call of InsertCommands(db, commands).
CallInsertCommands ==
    \E commands \in SeqsUpTo(StoreCommands, MaxBatch) :
    \E fault \in Faults(commands, Len(commands) + 1) :
        InsertCommandsOf(commands, fault)

\* The same call made again right after a successful InsertCommands.
RepeatInsertCommands ==
    /\ call.op = "InsertCommands"
    /\ ~call.err
    /\ ~call.repeat
    /\ LET r == InsertCommands(DB, call.commands, 0)
       IN  /\ rows' = r.rows
           /\ fts' = r.fts
           /\ call' = [call EXCEPT
                          !.fault = NoFault, !.pre = rows,
                          !.inserted = r.inserted, !.ignored = r.ignored,
                          !.err = r.err, !.repeat = TRUE,
                          !.first = [pre |-> call.pre, inserted |-> call.inserted,
                                     ignored |-> call.ignored]]
    /\ UNCHANGED <<parseVars, collectVars, searchVars, cacheVars, wizardVars>>

\* A call of InsertCommandsBatch(db, commands, batchSize) that meets the
\* given fault.
InsertCommandsBatchOf(commands, batchSize, fault) ==
        LET r == InsertCommandsBatch(DB, commands, batchSize, fault)
        IN  /\ rows' = r.rows
            /\ fts' = r.fts
            /\ call' = [op |-> "InsertCommandsBatch", commands |-> commands,
                        batchSize |-> batchSize, fault |-> fault, pre |-> rows,
                        inserted |-> r.inserted, ignored |-> r.ignored,
                        err |-> r.err, repeat |-> FALSE, first |-> NoFirst]
            /\ UNCHANGED <<parseVars, collectVars, searchVars, cacheVars, wizardVars>>

\* A call of InsertCommandsBatch(db, commands, batchSize).
CallInsertCommandsBatch ==
    \E commands \in SeqsUpTo(StoreCommands, MaxBatch) :
    \E batchSize \in BatchSizes :
    \E fault \in Faults(commands, EffectiveBatchSize(batchSize)) :
        InsertCommandsBatchOf(commands, batchSize, fault)

NextStore == CallInsertCommands \/ RepeatInsertCommands \/ CallInsertCommandsBatch

SpecStore == InitStore /\ [][NextStore]_vars

\* ------------------------------------------------------- SpecIndex actions

\* The texts an UPDATE of a row writes.
IndexTexts == {<<"a">>, <<"b">>}

\* DELETE FROM commands WHERE rowid = ?, one statement in its own transaction:
\* the row goes and the trigger commands_ad removes its index entry.
DeleteCommand ==
    \E old \in rows :
        /\ rows' = rows \ {old}
        /\ fts' = TriggerAD(fts, old)
        /\ call' = [NoCall EXCEPT !.op = "DELETE", !.commands = <<old>>,
                                  !.pre = rows]
        /\ UNCHANGED <<parseVars, collectVars, searchVars, cacheVars, wizardVars>>

\* UPDATE commands SET command = ? WHERE rowid = ?, one statement in its own
\* transaction: the row keeps its rowid and the trigger commands_au replaces
\* its index entry.
UpdateCommand ==
    \E old \in rows :
    \E text \in IndexTexts :
        LET new == [old EXCEPT !.Command = text]
        IN  /\ rows' = (rows \ {old}) \cup {new}
            /\ fts' = TriggerAU(fts, old, new)
            /\ call' = [NoCall EXCEPT !.op = "UPDATE", !.commands = <<old, new>>,
                                      !.pre = rows]
            /\ UNCHANGED <<parseVars, collectVars, searchVars, cacheVars,
                           wizardVars>>

\* A call of InsertCommandsBatch with one record in each sub-batch.
BatchOfOne ==
    \E commands \in SeqsUpTo(StoreCommands, MaxBatch) :
    \E fault \in Faults(commands, 1) :
        InsertCommandsBatchOf(commands, 1, fault)

NextIndex ==
    \/ CallInsertCommands
    \/ BatchOfOne
    \/ DeleteCommand
    \/ UpdateCommand

SpecIndex == InitStore /\ [][NextIndex]_vars

\* ------------------------------------------------------- SpecParse actions

AbsPathParse == "/h/a"

InitParse ==
    /\ file \in SeqsUpTo(Lines, MaxLines)
    /\ scanned = 0
    /\ p = ParserStart
    /\ phase = "scan"
    /\ history = <<>>
    /\ EmptyDB
    /\ call = NoCall
    /\ CollectIdle
    /\ SearchIdle
    /\ CacheIdle
    /\ WizardIdle

\* scanner.Scan() returned a line: one loop iteration.
Scan ==
    /\ phase = "scan"
    /\ scanned < Len(file)
    /\ ~TooLong(file[scanned + 1])
    /\ p' = ScanLine(p, AbsPathParse, file[scanned + 1])
    /\ scanned' = scanned + 1
    /\ UNCHANGED <<file, phase, history, storeVars, collectVars,
                   searchVars, cacheVars, wizardVars>>

\* scanner.Scan() returned false at the end of the file: the open command
\* is emitted and scanner.Err() is nil.
ScanEOF ==
    /\ phase = "scan"
    /\ scanned = Len(file)
    /\ p' = EmitOpen(p, AbsPathParse)
    /\ phase' = "subsec"
    /\ UNCHANGED <<file, scanned, history, storeVars, collectVars,
                   searchVars, cacheVars, wizardVars>>

\* scanner.Scan() returned false on a line that is too long: the open command
\* is emitted, then scanner.Err() makes ParseHistoryFile return (nil, error).
ScanErr ==
    /\ phase = "scan"
    /\ scanned < Len(file)
    /\ TooLong(file[scanned + 1])
    /\ p' = EmitOpen(p, AbsPathParse)
    /\ phase' = "failed"
    /\ UNCHANGED <<file, scanned, history, storeVars, collectVars,
                   searchVars, cacheVars, wizardVars>>

\* history = addSubsecondTimestamps(history); return &history, nil
Disambiguate ==
    /\ phase = "subsec"
    /\ history' = AddSubsecondTimestamps(p.Commands)
    /\ phase' = "done"
    /\ UNCHANGED <<file, scanned, p, storeVars, collectVars,
                   searchVars, cacheVars, wizardVars>>

NextParse == Scan \/ ScanEOF \/ ScanErr \/ Disambiguate

SpecParse == InitParse /\ [][NextParse]_vars

\* ----------------------------------------------------- SpecCollect actions

\* filepath.Abs with working directory /h: an absolute path is returned as it
\* is, a relative one is joined to the working directory.
Abs(path) == IF path = "b" THEN "/h/b" ELSE path

\* The paths collect is run on: one absolute, one relative.
Paths == {"/h/a", "b"}

Sources == {Abs(path) : path \in Paths}

\* The batch size runCollect passes to InsertCommandsBatch.
CollectBatchSize == 500

\* What a history file may hold when a run reads it: one entry, the same with
\* an entry appended in the same second, the two after the first was trimmed
\* away, that with an entry appended, an entry of two lines, an entry followed
\* by a malformed header and text, and a file with a line too long to scan.
HistoryFiles ==
    { << <<":", " ", "1", ":", "0", ";", "a">> >>,
      << <<":", " ", "1", ":", "0", ";", "a">>,
         <<":", " ", "1", ":", "5", ";", "b">> >>,
      << <<":", " ", "1", ":", "5", ";", "b">> >>,
      << <<":", " ", "1", ":", "5", ";", "b">>,
         <<":", " ", "1", ":", "0", ";", "a">> >>,
      << <<":", " ", "1", ":", "0", ";", "a">>, <<"b">> >>,
      << <<":", " ", "2", ":", "0", ";", "a">>, <<":", " ", "x">>, <<"b">> >>,
      << <<":", " ", "1", ":", "0", ";", "a">>, LongLine >> }

\* The store errors a run's insert can meet: none, or the last Exec of the
\* transaction fails.
CollectFaults(commands) ==
    IF Len(commands) = 0 THEN {NoFault} ELSE {NoFault, <<1, Len(commands)>>}

NotIngested == [has |-> FALSE, content |-> <<>>]

InitCollect ==
    /\ EmptyDB
    /\ call = NoCall
    /\ ParseIdle
    /\ SearchIdle
    /\ CacheIdle
    /\ WizardIdle
    /\ runs = 0
    /\ last = NoRun
    /\ ingested = [s \in Sources |-> NotIngested]

\* runCollect(ctx, dbPath, [path], quiet) with the file holding content: the
\* file is parsed and its commands are inserted in sub-batches of 500; a parse
\* error or an insert error skips the file (continue), and runCollect returns
\* nil.
RunCollectOn(path, content) ==
    /\ LET source == Abs(path)
             parse  == ParseHistoryFile(source, content)
         IN  \E fault \in CollectFaults(parse.Commands) :
               LET r  == IF parse.err
                         THEN [rows |-> rows, fts |-> fts, inserted |-> 0,
                               ignored |-> 0, err |-> FALSE]
                         ELSE InsertCommandsBatch(DB, parse.Commands,
                                                  CollectBatchSize, fault)
                   ok == ~parse.err /\ ~r.err
               IN  /\ rows' = r.rows
                   /\ fts' = r.fts
                   /\ last' = [path |-> path, source |-> source,
                               content |-> content, parseErr |-> parse.err,
                               parsed |-> parse.Commands, pre |-> rows,
                               inserted |-> IF ok THEN r.inserted ELSE 0,
                               ignored |-> IF ok THEN r.ignored ELSE 0,
                               insertErr |-> r.err,
                               hadPrev |-> ingested[source].has,
                               prev |-> ingested[source].content]
                   /\ ingested' = IF ok
                                  THEN [ingested EXCEPT ![source] =
                                            [has |-> TRUE, content |-> content]]
                                  ELSE ingested
    /\ runs' = runs + 1
    /\ UNCHANGED <<parseVars, call, searchVars, cacheVars, wizardVars>>

\* A collect run over one of the files.
RunCollect ==
    /\ runs < MaxRuns
    /\ \E path \in Paths, content \in HistoryFiles : RunCollectOn(path, content)

NextCollect == RunCollect

SpecCollect == InitCollect /\ [][NextCollect]_vars

\* ------------------------------------------------------------ wizard_cache

\* NormalizeQuery: lower case of the trimmed query. The key of the table.
NormalizeQuery(query) == ToLower(TrimSpace(query))

\* The rows of wizard_cache with the given key.
CacheRows(tbl, normalized) == {e \in tbl : e.QueryNormalized = normalized}

\* GetWizardCache(db, query): the row of the normalized key, sql.ErrNoRows as
\* no entry and no error; any other failure of the statement as an error.
GetWizardCache(tbl, query, fault) ==
    IF fault
    THEN [entry |-> {}, err |-> TRUE]
    ELSE [entry |-> CacheRows(tbl, NormalizeQuery(query)), err |-> FALSE]

\* The row INSERT INTO wizard_cache ... VALUES (?, ?, ?, 1, ?, ?) writes.
NewCacheEntry(query, command, now) ==
    [QueryNormalized |-> NormalizeQuery(query), QueryOriginal |-> query,
     Command |-> command, RunCount |-> 1, LastUsed |-> now, CreatedAt |-> now]

\* Mutant of OnConflictUpdate: the run count is not incremented.
OnConflictKeepCount(e, command, now) ==
    [e EXCEPT !.Command = command, !.LastUsed = now]

\* ON CONFLICT(query_normalized) DO UPDATE SET command = excluded.command,
\* run_count = run_count + 1, last_used = excluded.last_used. The other
\* columns of the row keep their values.
OnConflictUpdate(e, command, now) ==
    [e EXCEPT !.Command = command, !.RunCount = @ + 1, !.LastUsed = now]

\* Mutant of SetWizardCache: the table is keyed by the literal query.
SetWizardCacheLiteralKey(tbl, query, command, now, fault) ==
    IF fault
    THEN [cache |-> tbl, err |-> TRUE]
    ELSE LET conflict == {e \in tbl : e.QueryOriginal = query}
         IN  [cache |-> IF conflict = {}
                        THEN tbl \cup {NewCacheEntry(query, command, now)}
                        ELSE (tbl \ conflict) \cup
                             {OnConflictUpdate(e, command, now) : e \in conflict},
              err |-> FALSE]

\* SetWizardCache(db, query, command) at time now: one upsert statement.
SetWizardCache(tbl, query, command, now, fault) ==
    IF fault
    THEN [cache |-> tbl, err |-> TRUE]
    ELSE LET conflict == CacheRows(tbl, NormalizeQuery(query))
         IN  [cache |-> IF conflict = {}
                        THEN tbl \cup {NewCacheEntry(query, command, now)}
                        ELSE (tbl \ conflict) \cup
                             {OnConflictUpdate(e, command, now) : e \in conflict},
              err |-> FALSE]

\* ClearWizardCache(db): DELETE FROM wizard_cache.
ClearWizardCache(tbl, fault) ==
    IF fault THEN [cache |-> tbl, err |-> TRUE] ELSE [cache |-> {}, err |-> FALSE]

\* DeleteWizardCacheEntry(db, query): DELETE ... WHERE query_normalized = ?.
DeleteWizardCacheEntry(tbl, query, fault) ==
    IF fault
    THEN [cache |-> tbl, err |-> TRUE]
    ELSE [cache |-> tbl \ CacheRows(tbl, NormalizeQuery(query)), err |-> FALSE]

\* ------------------------------------------------------------------ wizard

\* strings.HasSuffix
HasSuffix(s, suffix) ==
    /\ Len(s) >= Len(suffix)
    /\ SubSeq(s, Len(s) - Len(suffix) + 1, Len(s)) = suffix

\* strings.TrimPrefix
TrimPrefix(s, prefix) ==
    IF HasPrefix(s, prefix) THEN SubSeq(s, Len(prefix) + 1, Len(s)) ELSE s

\* strings.TrimSuffix
TrimSuffix(s, suffix) ==
    IF HasSuffix(s, suffix) THEN SubSeq(s, 1, Len(s) - Len(suffix)) ELSE s

\* The grave accent, which a string of the module cannot hold as itself.
Backtick == "grave"

\* The markdown fence.
Fence == <<Backtick, Backtick, Backtick>>

\* parseResponse: the reply without surrounding white space, without code
\* fences, cut to its first line unless that line ends in a continuation, and
\* without a leading shell prompt.
parseResponse(response) ==
    LET r1 == TrimSpace(response)
        r2 == TrimPrefix(r1, Fence \o <<"b", "a", "s", "h">>)
        r3 == TrimPrefix(r2, Fence \o <<"s", "h", "e", "l", "l">>)
        r4 == TrimPrefix(r3, Fence \o <<"s", "h">>)
        r5 == TrimPrefix(r4, Fence)
        r6 == TrimSuffix(r5, Fence)
        r7 == TrimSpace(r6)
        lines == SplitN2(r7, "\n")
        firstLine == TrimSpace(lines[1])
        r8 == IF Len(lines) > 1
                  /\ ~HasSuffix(firstLine, <<"\\">>)
                  /\ ~HasSuffix(firstLine, <<"&", "&">>)
                  /\ ~HasSuffix(firstLine, <<"|">>)
              THEN firstLine
              ELSE r7
        r9 == TrimPrefix(r8, <<"$", " ">>)
    IN  TrimPrefix(r9, <<"#", " ">>)

\* The timeout of a client that is not configured with one, in seconds.
DefaultTimeout == 5

\* NewLLMClient(config): the timeout the client works with.
NewLLMClient(timeout) == IF timeout = 0 THEN DefaultTimeout ELSE timeout

\* Mutant of Complete: the request runs without a deadline.
CompleteNoDeadline(timeout, backend) ==
    IF backend.kind = "reply"
    THEN [err |-> FALSE, text |-> backend.text, elapsed |-> backend.delay]
    ELSE [err |-> TRUE, text |-> <<>>, elapsed |-> backend.delay]

\* OpenAIClient.Complete(ctx, prompt, system) of a client with the given
\* timeout: one request under context.WithTimeout; an answer that is not
\* there when the deadline passes, a failed request and an answer without
\* choices are errors.
Complete(timeout, backend) ==
    IF backend.delay > timeout
    THEN [err |-> TRUE, text |-> <<>>, elapsed |-> timeout]
    ELSE IF backend.kind = "reply"
    THEN [err |-> FALSE, text |-> backend.text, elapsed |-> backend.delay]
    ELSE [err |-> TRUE, text |-> <<>>, elapsed |-> backend.delay]

\* What Generate returns and what it did on the way: the response (none with
\* an error), the error message, the number of cache lookups and the number
\* of calls of the backend.
Returned(resp, err, cached, lookups, calls) ==
    [resp |-> resp, err |-> err, cached |-> cached, lookups |-> lookups,
     calls |-> calls]

\* Mutant of Cached: the lookup result is never taken as a hit.
CachedNever(looked) == FALSE

\* if cached != nil
Cached(looked) == looked.entry # {}

\* Wizard.Generate(ctx, req) on the cache table tbl. llm: a backend is
\* configured; fault: the cache lookup fails; completion: what w.llm.Complete
\* returns if it is called.
Generate(tbl, reqQuery, llm, fault, completion) ==
    LET query == TrimSpace(reqQuery)
    IN  IF query = <<>>
        THEN Returned({}, "query cannot be empty", {}, 0, 0)
        ELSE LET looked == GetWizardCache(tbl, query, fault)
             IN  IF Cached(looked)
                 THEN Returned({[Command |-> e.Command, Source |-> "cache",
                                 Query |-> query, FromCache |-> TRUE]
                                    : e \in looked.entry},
                               "", looked.entry, 1, 0)
                 ELSE IF ~llm
                 THEN Returned({}, "LLM not available and no cached result",
                               looked.entry, 1, 0)
                 ELSE IF completion.err
                 THEN Returned({}, "LLM generation failed", looked.entry, 1, 1)
                 ELSE IF parseResponse(completion.text) = <<>>
                 THEN Returned({}, "LLM returned empty or invalid command",
                               looked.entry, 1, 1)
                 ELSE Returned({[Command |-> parseResponse(completion.text),
                                 Source |-> "llm", Query |-> query,
                                 FromCache |-> FALSE]},
                               "", looked.entry, 1, 1)

\* ------------------------------------------------------------------- stats

\* GetDBStats(db): the number of rows, the number of sources and the number
\* of rows of each source; a failing query returns an error and no map.
GetDBStats(db, fault) ==
    IF fault
    THEN [NoStats EXCEPT !.op = "GetDBStats", !.err = TRUE]
    ELSE LET sources == {r.Source : r \in db.rows}
         IN  [op |-> "GetDBStats",
              total_commands |-> Cardinality(db.rows),
              total_sources |-> Cardinality(sources),
              sources |-> {<<src, Cardinality({r \in db.rows : r.Source = src})>>
                              : src \in sources},
              err |-> FALSE]

\* ------------------------------------------------------ SpecSearch actions

\* The records searched: "git st" and "git git" with the same timestamp in two
\* sources, "ls -la" later, "Git" last.
SearchRecords ==
    { NewCommand("/h/a", Float64OfInt(1), <<"g", "i", "t", " ", "s", "t">>, 0),
      NewCommand("/h/b", Float64OfInt(1), <<"g", "i", "t", " ", "g", "i", "t">>, 0),
      NewCommand("/h/a", Float64OfInt(2), <<"l", "s", " ", "-", "l", "a">>, 0),
      NewCommand("/h/a", Float64OfInt(3), <<"G", "i", "t">>, 0) }

\* opts.Query: none, one word, two prefixes, upper case, a word with a dash,
\* a parenthesis, a blank, a word after a dash in the text.
SearchQueries ==
    { <<>>,
      <<"g", "i", "t">>,
      <<"g", "i", " ", "s">>,
      <<"G">>,
      <<"-", "l", "a">>,
      <<"(">>,
      <<" ">>,
      <<"l", "a">> }

SearchLimits == {-1, 0, 1}

SearchSince == {Float64OfInt(-1), 0, Float64OfInt(2)}

SearchUntil == {0, Float64OfInt(1)}

\* A database filled by one InsertCommands call, nothing searched yet.
InitSearch ==
    /\ \E list \in SeqsUpTo(SearchRecords, MaxStored) :
          LET r == InsertCommands([rows |-> {}, fts |-> {}], list, 0)
          IN  rows = r.rows /\ fts = r.fts
    /\ call = NoCall
    /\ ParseIdle
    /\ CollectIdle
    /\ SearchIdle
    /\ CacheIdle
    /\ WizardIdle

\* A call of SearchCommands(db, opts) with the given options.
SearchCommandsWith(opts) ==
        LET r == SearchCommands(DB, opts)
        IN  \E res \in r.results :
              /\ search' = [op |-> "SearchCommands", opts |-> opts,
                            results |-> res, err |-> r.err]
              /\ UNCHANGED <<parseVars, storeVars, collectVars, stats, cacheVars,
                             wizardVars>>

\* A call of SearchCommands(db, opts).
CallSearchCommands ==
    \E opts \in [Query : SearchQueries, Limit : SearchLimits,
                 Since : SearchSince, Until : SearchUntil] :
        SearchCommandsWith(opts)

NextSearch == CallSearchCommands

SpecSearch == InitSearch /\ [][NextSearch]_vars

\* ------------------------------------------------------- SpecCache actions

\* Queries: two spellings of one key, and another key.
CacheQueries == { <<"a">>, <<" ", "A", " ">>, <<"b">> }

\* Commands a caller caches.
CacheCommands == { <<"x">>, <<"y">> }

\* float64(time.Now().Unix()) at the calls.
Clock == {Float64OfInt(1), Float64OfInt(2)}

\* The calls of a log whose query has the given key.
RECURSIVE WithoutKey(_, _)
WithoutKey(log, normalized) ==
    IF log = <<>> THEN <<>>
    ELSE IF NormalizeQuery(log[1].query) = normalized
         THEN WithoutKey(Tail(log), normalized)
         ELSE <<log[1]>> \o WithoutKey(Tail(log), normalized)

InitCache ==
    /\ EmptyDB
    /\ call = NoCall
    /\ ParseIdle
    /\ CollectIdle
    /\ SearchIdle
    /\ CacheIdle
    /\ WizardIdle

\* A call of SetWizardCache(db, query, command) at time now.
SetWizardCacheAt(query, command, now, fault) ==
    /\    LET r == SetWizardCache(cache, query, command, now, fault)
          IN  /\ cache' = r.cache
              /\ cop' = [op |-> "SetWizardCache", query |-> query,
                         command |-> command, now |-> now, pre |-> cache,
                         found |-> {}, err |-> r.err]
              /\ sets' = IF r.err THEN sets
                         ELSE Append(sets, [query |-> query, command |-> command,
                                            now |-> now])
    /\ UNCHANGED <<parseVars, storeVars, collectVars, searchVars, wizardVars>>

\* A call of SetWizardCache(db, query, command).
CallSetWizardCache ==
    /\ Len(sets) < MaxSets
    /\ \E query \in CacheQueries, command \in CacheCommands, now \in Clock,
          fault \in BOOLEAN :
          SetWizardCacheAt(query, command, now, fault)

\* A call of GetWizardCache(db, query).
CallGetWizardCache ==
    /\ \E query \in CacheQueries, fault \in BOOLEAN :
          LET r == GetWizardCache(cache, query, fault)
          IN  cop' = [op |-> "GetWizardCache", query |-> query, command |-> <<>>,
                      now |-> 0, pre |-> cache, found |-> r.entry, err |-> r.err]
    /\ UNCHANGED <<cache, sets>>
    /\ UNCHANGED <<parseVars, storeVars, collectVars, searchVars, wizardVars>>

\* A call of ClearWizardCache(db).
CallClearWizardCache ==
    /\ \E fault \in BOOLEAN :
          LET r == ClearWizardCache(cache, fault)
          IN  /\ cache' = r.cache
              /\ cop' = [op |-> "ClearWizardCache", query |-> <<>>,
                         command |-> <<>>, now |-> 0, pre |-> cache,
                         found |-> {}, err |-> r.err]
              /\ sets' = IF r.err THEN sets ELSE <<>>
    /\ UNCHANGED <<parseVars, storeVars, collectVars, searchVars, wizardVars>>

\* A call of DeleteWizardCacheEntry(db, query).
CallDeleteWizardCacheEntry ==
    /\ \E query \in CacheQueries, fault \in BOOLEAN :
          LET r == DeleteWizardCacheEntry(cache, query, fault)
          IN  /\ cache' = r.cache
              /\ cop' = [op |-> "DeleteWizardCacheEntry", query |-> query,
                         command |-> <<>>, now |-> 0, pre |-> cache,
                         found |-> {}, err |-> r.err]
              /\ sets' = IF r.err THEN sets
                         ELSE WithoutKey(sets, NormalizeQuery(query))
    /\ UNCHANGED <<parseVars, storeVars, collectVars, searchVars, wizardVars>>

NextCache ==
    \/ CallSetWizardCache
    \/ CallGetWizardCache
    \/ CallClearWizardCache
    \/ CallDeleteWizardCacheEntry

SpecCache == InitCache /\ [][NextCache]_vars

\* ------------------------------------------------------ SpecWizard actions

\* req.Query: blank, and two spellings of one key.
WizardQueries == { <<" ">>, <<"a">>, <<" ", "A", " ">> }

\* What the backend does with a request: it is unreachable, it answers with
\* no choice, or it answers after some seconds with a command, a fenced
\* command, a prompt-prefixed command, an empty fenced block.
Backends ==
    { [kind |-> "unreachable", delay |-> 0, text |-> <<>>],
      [kind |-> "nochoices", delay |-> 0, text |-> <<>>],
      [kind |-> "reply", delay |-> 2, text |-> <<"l", "s">>],
      [kind |-> "reply", delay |-> 0,
       text |-> Fence \o <<"s", "h", "\n", "l", "s", "\n">> \o Fence],
      [kind |-> "reply", delay |-> 0, text |-> <<"$", " ", "l", "s", "\n">>],
      [kind |-> "reply", delay |-> 0, text |-> Fence \o <<"\n">> \o Fence] }

\* config.Timeout in seconds as runWizard passes it: unset, or one second.
Timeouts == {0, 1}

\* The clock at the CacheCommand calls.
WizardClock == {Float64OfInt(1)}

\* The queries whose commands the user ran.
CachedQueries == { <<"a">>, <<"b">> }

\* A call of Wizard.Generate(ctx, req) that ends after what the backend
\* does with the given timeout, if Generate comes to call it.
GenerateWith(query, llm, fault, timeout, backend) ==
    LET completion == Complete(NewLLMClient(timeout), backend)
        r == Generate(cache, query, llm, fault, completion)
    IN  /\ gen' = [op |-> "Generate", query |-> query, llm |-> llm,
                   fault |-> IF r.lookups > 0 THEN fault ELSE FALSE,
                   timeout |-> IF r.calls > 0 THEN NewLLMClient(timeout) ELSE 0,
                   completion |-> IF r.calls > 0 THEN completion
                                  ELSE NoCompletion,
                   pre |-> cache, cached |-> r.cached,
                   lookups |-> r.lookups,
                   calls |-> r.calls, resp |-> r.resp, err |-> r.err]
        /\ UNCHANGED <<parseVars, storeVars, collectVars, searchVars, cacheVars,
                       cli, ctx, collectors>>

\* A call of Wizard.Generate(ctx, req). The backend and its timeout are inputs
\* of the calls that reach w.llm.Complete only.
CallGenerate ==
    \E query \in WizardQueries, llm \in BOOLEAN, fault \in BOOLEAN :
        IF Generate(cache, query, llm, fault, NoCompletion).calls = 0
        THEN GenerateWith(query, llm, fault, 0,
                          [kind |-> "unreachable", delay |-> 0, text |-> <<>>])
        ELSE \E timeout \in Timeouts, backend \in Backends :
                GenerateWith(query, llm, fault, timeout, backend)

\* A call of Wizard.CacheCommand(query, command): SetWizardCache.
CallCacheCommand ==
    /\ Len(sets) < MaxCached
    /\ \E query \in CachedQueries, command \in CacheCommands, now \in WizardClock,
          fault \in BOOLEAN :
          SetWizardCacheAt(query, command, now, fault)

NextWizard == CallGenerate \/ CallCacheCommand

SpecWizard == InitCache /\ [][NextWizard]_vars

\* -------------------------------------------------------- SpecZist actions

\* A call of GetDBStats(db).
CallGetDBStats ==
    /\ \E fault \in BOOLEAN : stats' = GetDBStats(DB, fault)
    /\ UNCHANGED <<parseVars, storeVars, collectVars, search, cacheVars,
                   wizardVars>>

\* The operations made so far: collect runs, an insert call, a search, a stats
\* call and the calls on the cache.
OpsDone ==
    runs + (IF call.op = "none" THEN 0 ELSE 1)
         + (IF search.op = "none" THEN 0 ELSE 1)
         + (IF stats.op = "none" THEN 0 ELSE 1)
         + Len(sets)
         + (IF cop.op \in {"none", "SetWizardCache"} THEN 0 ELSE 1)

\* The lists inserted directly: one record, or two records of one key with
\* different contents.
ZistLists ==
    {<<c>> : c \in StoreCommands}
        \cup {<<cd[1], cd[2]>> :
                 cd \in {x \in StoreCommands \X StoreCommands :
                            SameKey(x[1], x[2]) /\ x[1] # x[2]}}

\* collect over one of the files.
ZistCollect ==
    /\ OpsDone < MaxOps
    /\ \E path \in Paths, content \in HistoryFiles : RunCollectOn(path, content)

\* An insert call, the store working or failing at the commit.
ZistInsert ==
    /\ OpsDone < MaxOps
    /\ call.op = "none"
    /\ \E commands \in ZistLists :
          \/ \E fault \in {NoFault, <<1, Len(commands) + 1>>} :
                InsertCommandsOf(commands, fault)
          \/ InsertCommandsBatchOf(commands, 1, NoFault)

\* A search for everything, or for a word.
ZistSearch ==
    /\ OpsDone < MaxOps
    /\ search.op = "none"
    /\ \E query \in {<<>>, <<"a">>} :
          SearchCommandsWith([Query |-> query, Limit |-> 0, Since |-> 0,
                              Until |-> 0])

\* stats.
ZistStats ==
    /\ OpsDone < MaxOps
    /\ stats.op = "none"
    /\ CallGetDBStats

\* A call on the cache: set, get, clear or delete.
ZistCache ==
    /\ OpsDone < MaxOps
    /\ cop.op \in {"none", "SetWizardCache"}
    /\ \/ \E query \in CachedQueries, command \in CacheCommands,
             now \in WizardClock :
             SetWizardCacheAt(query, command, now, FALSE)
       \/ CallGetWizardCache
       \/ CallClearWizardCache
       \/ CallDeleteWizardCacheEntry

NextZist == ZistCollect \/ ZistInsert \/ ZistSearch \/ ZistStats \/ ZistCache

SpecZist == InitCollect /\ [][NextZist]_vars

\* --------------------------------------------------------- SpecCli actions

\* Where InitDB can fail: nowhere, at os.MkdirAll, at sql.Open, at db.Ping, at
\* CreateSchema.
DBFaults == {"none", "mkdir", "open", "ping", "schema"}

\* InitDB(dbPath): the steps taken, the number of handles sql.Open returned
\* and whether an error is returned. A failing Ping or CreateSchema returns
\* (nil, err) and leaves the handle of sql.Open as it is.
InitDB(fault) ==
    IF fault = "mkdir"
    THEN [err |-> TRUE, opened |-> 0, trace |-> <<"MkdirAll">>]
    ELSE IF fault = "open"
    THEN [err |-> TRUE, opened |-> 0, trace |-> <<"MkdirAll", "sql.Open">>]
    ELSE IF fault = "ping"
    THEN [err |-> TRUE, opened |-> 1, trace |-> <<"MkdirAll", "sql.Open", "Ping">>]
    ELSE [err |-> fault = "schema", opened |-> 1,
          trace |-> <<"MkdirAll", "sql.Open", "Ping", "CreateSchema">>]

\* What a subcommand leaves behind: the tables, the log of cache sets, and
\* the record of the run.
Ran(db, tbl, log, run) ==
    [rows |-> db.rows, fts |-> db.fts, cache |-> tbl, sets |-> log, cli |-> run]

\* The steps of a Generate call on the store and on the backend.
GenerateTrace(r) ==
    (IF r.lookups > 0 THEN <<"GetWizardCache">> ELSE <<>>)
        \o (IF r.calls > 0 THEN <<"gatherHistoryContext", "Complete">> ELSE <<>>)

\* runWizard(ctx, dbPath, query, ...). mode: "clear" (--clear-cache), "list"
\* (--list-cache), "cache" (--cache-query and --cache-cmd), "generate".
\* dbfault: where InitDB fails; fault: the store statement of the mode fails;
\* backend: what the backend does if it is called.
runWizard(db, tbl, log, mode, query, command, now, dbfault, fault, backend) ==
    LET init == InitDB(dbfault)
        run  == [NoCli EXCEPT !.op = "runWizard", !.mode = mode,
                              !.query = query, !.opened = init.opened]
        done(t, l, trace, failed, ret, out) ==
            Ran(db, t, l,
                [run EXCEPT !.trace = init.trace \o trace \o <<"Close">>,
                            !.closed = 1, !.storeErr = failed, !.ret = ret,
                            !.out = out])
    IN  IF init.err
        THEN Ran(db, tbl, log,
                 [run EXCEPT !.trace = init.trace, !.storeErr = TRUE,
                             !.ret = "failed to open database"])
        ELSE IF mode = "clear"
        THEN LET r == ClearWizardCache(tbl, fault)
             IN  done(r.cache, IF r.err THEN log ELSE <<>>,
                      <<"ClearWizardCache">>, r.err,
                      IF r.err THEN "failed to clear wizard cache" ELSE "",
                      IF r.err THEN <<>> ELSE <<"Wizard cache cleared">>)
        ELSE IF mode = "list"
        THEN done(tbl, log, <<"ListWizardCache">>, fault,
                  IF fault THEN "failed to list wizard cache" ELSE "",
                  IF fault THEN <<>>
                  ELSE IF tbl = {} THEN <<"No cached mappings">>
                  ELSE <<"Cached mappings">>)
        ELSE IF mode = "cache" /\ query # <<>> /\ command # <<>>
        THEN LET r == SetWizardCache(tbl, query, command, now, fault)
             IN  done(r.cache,
                      IF r.err THEN log
                      ELSE Append(log, [query |-> query, command |-> command,
                                        now |-> now]),
                      <<"SetWizardCache">>, r.err,
                      IF r.err THEN "failed to set wizard cache" ELSE "",
                      IF r.err THEN <<>> ELSE <<"Cached">>)
        ELSE IF query = <<>>
        THEN done(tbl, log, <<>>, FALSE, "--query is required", <<>>)
        ELSE LET r == Generate(tbl, query, TRUE, fault,
                               Complete(NewLLMClient(0), backend))
             IN  done(tbl, log, GenerateTrace(r), fault /\ r.lookups > 0, r.err,
                      IF r.err = "" THEN <<"command">> ELSE <<>>)

\* expandHistoryPaths(paths): the first path that os.Stat fails on, 0 if none.
FirstMissing(args) ==
    IF \E i \in 1..Len(args) : args[i].kind = "missing"
    THEN CHOOSE i \in 1..Len(args) :
            args[i].kind = "missing" /\ \A j \in 1..(i - 1) : args[j].kind # "missing"
    ELSE 0

\* The loop of runCollect over expandedFiles[n+1..]: a file that cannot be
\* parsed and a file whose insert fails are printed unless quiet, and the loop
\* goes on with the next file; the sub-batches committed before a failure
\* stay. acc: the tables, the lines printed, and whether an insert failed.
RECURSIVE CollectLoop(_, _, _, _, _)
CollectLoop(acc, args, faults, quiet, n) ==
    IF n = Len(args) THEN acc
    ELSE LET arg   == args[n + 1]
             parse == IF arg.kind = "unreadable"
                      THEN [err |-> TRUE, Commands |-> <<>>]
                      ELSE ParseHistoryFile(arg.path, arg.content)
         IN  IF parse.err
             THEN CollectLoop(
                      [acc EXCEPT !.out = IF quiet THEN @
                                          ELSE Append(@, <<"Error parsing", arg.path>>)],
                      args, faults, quiet, n + 1)
             ELSE LET r == InsertCommandsBatch(acc.db, parse.Commands, CollectBatchSize,
                                               faults[n + 1])
                  IN  CollectLoop(
                          [db |-> [rows |-> r.rows, fts |-> r.fts],
                           out |-> IF quiet THEN acc.out
                                   ELSE Append(acc.out,
                                               <<IF r.err THEN "Error inserting"
                                                 ELSE "parsed", arg.path>>),
                           storeErr |-> acc.storeErr \/ r.err],
                          args, faults, quiet, n + 1)

\* runCollect(ctx, dbPath, historyFiles, quiet) with historyFiles = the paths
\* of args; args[i].kind says what is at the path: nothing ("missing"), a
\* file that cannot be opened ("unreadable"), a file with content ("file").
\* faults[i]: the store error the insert of the i-th file meets.
runCollect(db, tbl, log, args, quiet, dbfault, faults) ==
    LET run == [NoCli EXCEPT !.op = "runCollect", !.args = args,
                             !.faults = faults, !.quiet = quiet]
    IN  IF FirstMissing(args) # 0
        THEN Ran(db, tbl, log,
                 [run EXCEPT !.trace = <<"Stat">>, !.ret = "failed to stat",
                             !.out = <<>>])
        ELSE LET init == InitDB(dbfault)
             IN  IF init.err
                 THEN Ran(db, tbl, log,
                          [run EXCEPT !.trace = <<"Stat">> \o init.trace,
                                      !.opened = init.opened, !.storeErr = TRUE,
                                      !.ret = "failed to initialize database"])
                 ELSE LET r == CollectLoop([db |-> db, out |-> <<>>,
                                            storeErr |-> FALSE],
                                           args, faults, quiet, 0)
                      IN  Ran(r.db, tbl, log,
                              [run EXCEPT
                                  !.trace = <<"Stat">> \o init.trace
                                            \o <<"InsertCommandsBatch">>
                                            \o (IF quiet THEN <<>>
                                                ELSE <<"GetDBStats">>)
                                            \o <<"Close">>,
                                  !.opened = init.opened, !.closed = 1,
                                  !.storeErr = r.storeErr, !.ret = "",
                                  !.out = r.out])

\* The NUL byte that ends a record sent to fzf and the selection it prints.
Nul == "NUL"

\* FormatTimestamp(ts): the time of the whole second int64(ts), as text.
FormatTimestamp(ts) == ToString(ts \div Milli)

\* fmt.Fprintf(stdin, "%s\t%s\t%s\x00", result.Command, result.Source,
\* formattedTime): the source and the formatted time stand as one character
\* each, neither a tab nor white space.
FzfRecord(result) ==
    result.Command
        \o <<"\t", result.Source, "\t", FormatTimestamp(result.Timestamp), Nul>>

\* strings.TrimRight(s, "\x00")
RECURSIVE TrimRightNul(_)
TrimRightNul(s) ==
    IF s = <<>> \/ s[Len(s)] # Nul THEN s
    ELSE TrimRightNul(SubSeq(s, 1, Len(s) - 1))

\* What fzf does with the records: it is not installed ("missing"), the user
\* cancels (exit code 130), no record matches what the user typed (exit code
\* 1), it exits with 0 and prints nothing ("empty"), or the user selects a
\* record and --print0 prints it as it was read, ended by NUL.
FzfOutcomes == {"missing", "cancel", "nomatch", "empty", "select"}

\* Mutant of PrintedCommand: the selection is printed up to the NUL.
PrintedCommandWhole(stdout) == TrimRightNul(stdout)

\* What runSearch prints for the output of fzf: the text before the first
\* tab of the selection without its trailing NULs and surrounding white
\* space.
PrintedCommand(stdout) ==
    SplitN2(TrimSpace(TrimRightNul(stdout)), "\t")[1]

\* runSearch(ctx, dbPath, args, limit, since, until) with args = [query] and
\* no --since and --until. found: what SearchCommands returns (err,
\* results); fzf: the outcome of fzf; pick: the record selected.
runSearch(db, tbl, log, query, dbfault, found, fzf, pick) ==
    LET init == InitDB(dbfault)
        run  == [NoCli EXCEPT !.op = "runSearch", !.query = query,
                              !.opened = init.opened]
        done(trace, mode, ret, out) ==
            Ran(db, tbl, log,
                [run EXCEPT !.trace = init.trace \o trace \o <<"Close">>,
                            !.closed = 1, !.storeErr = found.err,
                            !.args = found.results, !.mode = mode,
                            !.pick = IF mode = "select" THEN pick ELSE 0,
                            !.ret = ret, !.out = out])
    IN  IF init.err
        THEN Ran(db, tbl, log,
                 [run EXCEPT !.trace = init.trace, !.storeErr = TRUE,
                             !.ret = "failed to open database"])
        ELSE IF found.err
        THEN done(<<"SearchCommands">>, "", "failed to search", <<>>)
        ELSE IF Len(found.results) = 0
        THEN done(<<"SearchCommands">>, "", "", <<>>)
        ELSE IF fzf = "missing"
        THEN done(<<"SearchCommands">>, fzf, "fzf not found in PATH", <<>>)
        ELSE IF fzf = "cancel"
        THEN done(<<"SearchCommands", "fzf">>, fzf, "", <<>>)
        ELSE IF fzf = "nomatch"
        THEN done(<<"SearchCommands", "fzf">>, fzf, "fzf failed", <<>>)
        ELSE LET stdout   == IF fzf = "empty" THEN <<>>
                             ELSE FzfRecord(found.results[pick])
                 selected == TrimSpace(TrimRightNul(stdout))
             IN  done(<<"SearchCommands", "fzf">>, fzf, "",
                      IF selected = <<>> THEN <<>>
                      ELSE <<PrintedCommand(stdout)>>)

\* The queries given to the search subcommand: none, a word.
CliSearchQueries == { <<>>, <<"b">> }

\* The queries given to the wizard subcommand: none, a blank, a word.
CliQueries == { <<>>, <<" ">>, <<"a">> }

\* What the paths given to collect can hold; the command of /h/b has a tab
\* in it.
CliFiles ==
    { [path |-> "/h/m", kind |-> "missing", content |-> <<>>],
      [path |-> "/h/u", kind |-> "unreadable", content |-> <<>>],
      [path |-> "/h/a", kind |-> "file",
       content |-> << <<":", " ", "1", ":", "0", ";", "a">> >>],
      [path |-> "/h/b", kind |-> "file",
       content |-> << <<":", " ", "2", ":", "0", ";", "b", "\t", "c">> >>] }

\* The store errors the insert of one file can meet: none, or its first Exec
\* fails.
CliFaults == {NoFault, <<1, 1>>}

\* The run of a subcommand with the given outcome.
Run(r) ==
    /\ cli.seq < MaxCliRuns
    /\ rows' = r.rows
    /\ fts' = r.fts
    /\ cache' = r.cache
    /\ sets' = r.sets
    /\ cli' = [r.cli EXCEPT !.seq = cli.seq + 1]
    /\ UNCHANGED <<parseVars, call, collectVars, searchVars, cop, gen, ctx,
                   collectors>>

\* zist wizard ...: the fault of the statement and the backend matter only
\* once the store is open.
RunWizard ==
    \E mode \in {"clear", "list", "cache", "generate"}, query \in CliQueries,
       dbfault \in DBFaults :
        /\ mode = "cache" => Len(sets) < MaxCached
        /\ IF dbfault # "none"
           THEN Run(runWizard(DB, cache, sets, mode, query, <<"x">>,
                              Float64OfInt(1), dbfault, FALSE,
                              [kind |-> "unreachable", delay |-> 0, text |-> <<>>]))
           ELSE \E fault \in BOOLEAN,
                   backend \in {b \in Backends : b.delay = 0 /\ Len(b.text) <= 5} :
                    Run(runWizard(DB, cache, sets, mode, query, <<"x">>,
                                  Float64OfInt(1), dbfault, fault, backend))

\* zist collect [--quiet] path ...: the faults of the inserts matter only
\* once the store is open.
RunCollectCli ==
    \E n \in 1..MaxPaths :
    \E args \in [1..n -> CliFiles], quiet \in BOOLEAN, dbfault \in DBFaults :
        IF FirstMissing(args) # 0 \/ dbfault # "none"
        THEN Run(runCollect(DB, cache, sets, args, quiet, dbfault,
                            [i \in 1..n |-> NoFault]))
        ELSE \E faults \in [1..n -> CliFaults] :
                Run(runCollect(DB, cache, sets, args, quiet, dbfault, faults))

\* zist search [query]: the outcome of fzf matters only once records are sent.
RunSearchCli ==
    \E query \in CliSearchQueries, dbfault \in DBFaults :
        LET r == SearchCommands(DB, [Query |-> query, Limit |-> 0, Since |-> 0,
                                     Until |-> 0])
        IN  \E results \in r.results :
                LET found == [err |-> r.err, results |-> results]
                IN  IF dbfault # "none" \/ r.err \/ Len(results) = 0
                    THEN Run(runSearch(DB, cache, sets, query, dbfault, found,
                                       "missing", 0))
                    ELSE \E fzf \in FzfOutcomes :
                         \E pick \in IF fzf = "select" THEN 1..Len(results)
                                     ELSE {0} :
                            Run(runSearch(DB, cache, sets, query, dbfault,
                                          found, fzf, pick))

NextCli == RunWizard \/ RunCollectCli \/ RunSearchCli

SpecCli == InitCache /\ [][NextCli]_vars

\* ------------------------------------------------------- history context

\* The character class [a-zA-Z0-9_\-\.] of the regular expression.
WordChars ==
    { "a", "b", "c", "d", "e", "f", "g", "h", "i", "j", "k", "l", "m", "n", "o",
      "p", "q", "r", "s", "t", "u", "v", "w", "x", "y", "z",
      "A", "B", "C", "D", "E", "F", "G", "H", "I", "J", "K", "L", "M", "N", "O",
      "P", "Q", "R", "S", "T", "U", "V", "W", "X", "Y", "Z",
      "0", "1", "2", "3", "4", "5", "6", "7", "8", "9", "_", "-", "." }

\* stopWords
StopWords ==
    { <<"a">>, <<"a", "n">>, <<"t", "h", "e">>, <<"i", "s">>,
      <<"a", "r", "e">>, <<"w", "a", "s">>, <<"w", "e", "r", "e">>,
      <<"b", "e">>, <<"b", "e", "e", "n">>, <<"b", "e", "i", "n", "g">>,
      <<"h", "a", "v", "e">>, <<"h", "a", "s">>, <<"h", "a", "d">>,
      <<"d", "o">>, <<"d", "o", "e", "s">>, <<"d", "i", "d">>,
      <<"w", "i", "l", "l">>, <<"w", "o", "u", "l", "d">>,
      <<"c", "o", "u", "l", "d">>, <<"s", "h", "o", "u", "l", "d">>,
      <<"m", "a", "y">>, <<"m", "i", "g", "h", "t">>, <<"m", "u", "s", "t">>,
      <<"s", "h", "a", "l", "l">>, <<"i">>, <<"m", "e">>, <<"m", "y">>,
      <<"w", "e">>, <<"o", "u", "r">>, <<"y", "o", "u">>,
      <<"y", "o", "u", "r">>, <<"h", "e">>, <<"s", "h", "e">>, <<"i", "t">>,
      <<"t", "h", "e", "y">>, <<"t", "h", "e", "m">>,
      <<"t", "h", "e", "i", "r">>, <<"t", "h", "i", "s">>,
      <<"t", "h", "a", "t">>, <<"t", "h", "e", "s", "e">>,
      <<"t", "h", "o", "s", "e">>, <<"w", "h", "a", "t">>,
      <<"w", "h", "i", "c", "h">>, <<"w", "h", "o">>, <<"w", "h", "o", "m">>,
      <<"h", "o", "w">>, <<"w", "h", "e", "n">>, <<"w", "h", "e", "r", "e">>,
      <<"w", "h", "y">>, <<"a", "l", "l">>, <<"a", "n", "y">>,
      <<"b", "o", "t", "h">>, <<"e", "a", "c", "h">>, <<"f", "e", "w">>,
      <<"m", "o", "r", "e">>, <<"m", "o", "s", "t">>, <<"s", "o", "m", "e">>,
      <<"s", "h", "o", "w">>, <<"g", "e", "t">>, <<"f", "i", "n", "d">>,
      <<"l", "i", "s", "t">>, <<"d", "i", "s", "p", "l", "a", "y">>,
      <<"g", "i", "v", "e">>, <<"t", "e", "l", "l">>, <<"c", "a", "n">>,
      <<"p", "l", "e", "a", "s", "e">>, <<"w", "a", "n", "t">>,
      <<"n", "e", "e", "d">>, <<"l", "i", "k", "e">>, <<"t", "o">>,
      <<"o", "f">>, <<"i", "n">>, <<"f", "o", "r">>, <<"o", "n">>,
      <<"w", "i", "t", "h">>, <<"a", "t">>, <<"b", "y">>,
      <<"f", "r", "o", "m">>, <<"a", "s">>, <<"i", "n", "t", "o">>,
      <<"t", "h", "r", "o", "u", "g", "h">>,
      <<"d", "u", "r", "i", "n", "g">>, <<"b", "e", "f", "o", "r", "e">>,
      <<"a", "f", "t", "e", "r">>, <<"a", "b", "o", "v", "e">>,
      <<"b", "e", "l", "o", "w">>, <<"b", "e", "t", "w", "e", "e", "n">>,
      <<"a", "n", "d">>, <<"o", "r">>, <<"b", "u", "t">>, <<"n", "o", "t">> }

\* regexp.FindAllString(s, -1) for [a-zA-Z0-9_\-\.]+ : the matches from left
\* to right, each as long as it can be. cur: the match being read; acc: the
\* matches before it.
RECURSIVE FindAllString(_, _, _)
FindAllString(s, cur, acc) ==
    IF s = <<>> THEN (IF cur = <<>> THEN acc ELSE Append(acc, cur))
    ELSE IF Head(s) \in WordChars
    THEN FindAllString(Tail(s), Append(cur, Head(s)), acc)
    ELSE FindAllString(Tail(s), <<>>, IF cur = <<>> THEN acc ELSE Append(acc, cur))

\* if len(word) < 2 { continue }
MinWordLen == 2

\* Mutant of KeywordLoop: the seen map is not consulted.
RECURSIVE KeywordLoopNoSeen(_, _)
KeywordLoopNoSeen(words, keywords) ==
    IF words = <<>> THEN keywords
    ELSE LET word == Head(words)
         IN  IF Len(word) < MinWordLen \/ word \in StopWords
             THEN KeywordLoopNoSeen(Tail(words), keywords)
             ELSE KeywordLoopNoSeen(Tail(words), Append(keywords, word))

\* The loop of extractKeywords over words; seen is the set of the keywords
\* appended so far.
RECURSIVE KeywordLoop(_, _)
KeywordLoop(words, keywords) ==
    IF words = <<>> THEN keywords
    ELSE LET word == Head(words)
         IN  IF \/ Len(word) < MinWordLen
                \/ word \in StopWords
                \/ \E i \in 1..Len(keywords) : keywords[i] = word
             THEN KeywordLoop(Tail(words), keywords)
             ELSE KeywordLoop(Tail(words), Append(keywords, word))

\* extractKeywords(query)
extractKeywords(query) ==
    KeywordLoop(FindAllString(ToLower(query), <<>>, <<>>), <<>>)

\* command LIKE '%kw%': kw occurs in command, where an underscore of kw
\* stands for any one character and letters match whatever their case.
Like(command, kw) ==
    \E i \in 1..(Len(command) - Len(kw) + 1) :
        \A j \in 1..Len(kw) :
            \/ kw[j] = "_"
            \/ ToLowerChar(command[i + j - 1]) = ToLowerChar(kw[j])

\* if kw = strings.TrimSpace(kw); len(kw) > 2
LongerThan == 2

\* The keywords SearchHistoryByKeywords keeps.
FilterKeywords(keywords) ==
    SelectSeq([i \in 1..Len(keywords) |-> TrimSpace(keywords[i])],
              LAMBDA kw : Len(kw) > LongerThan)

\* WHERE command LIKE ? AND ... (all) or command LIKE ? OR ... (any)
KeywordWhere(tbl, filtered, all) ==
    {r \in tbl :
        IF all THEN \A i \in 1..Len(filtered) : Like(r.Command, filtered[i])
        ELSE \E i \in 1..Len(filtered) : Like(r.Command, filtered[i])}

\* GROUP BY command with the bare columns source and timestamp: one row for
\* each command text, with COUNT(*) and the source and timestamp of one row
\* of its group, which one SQL leaves open.
GroupByCommand(S) ==
    LET texts == {r.Command : r \in S}
    IN  {{[Command |-> f[t].Command, Source |-> f[t].Source,
           Timestamp |-> f[t].Timestamp,
           count |-> Cardinality({r \in S : r.Command = t})] : t \in texts} :
            f \in {g \in [texts -> S] : \A t \in texts : g[t].Command = t}}

\* ORDER BY COUNT(*) DESC, timestamp DESC
OrderByCountDesc(G) ==
    {o \in [1..Cardinality(G) -> G] :
        /\ \A i, j \in 1..Cardinality(G) : o[i] = o[j] => i = j
        /\ \A i, j \in 1..Cardinality(G) : i < j =>
              \/ o[i].count > o[j].count
              \/ o[i].count = o[j].count /\ o[i].Timestamp >= o[j].Timestamp}

\* One of the two SELECT statements of SearchHistoryByKeywords: the result
\* lists it can return.
KeywordSelect(tbl, filtered, all, limit) ==
    {[i \in 1..Len(l) |-> SearchResult(l[i])] :
        l \in UNION {{SqlLimit(o, limit) : o \in OrderByCountDesc(G)} :
                        G \in GroupByCommand(KeywordWhere(tbl, filtered, all))}}

\* SearchHistoryByKeywords(db, keywords, limit): the result lists it can
\* return, or an error when a query fails.
SearchHistoryByKeywords(tbl, keywords, limit, fault) ==
    LET filtered == FilterKeywords(keywords)
        first    == KeywordSelect(tbl, filtered, TRUE, limit)
    IN  IF Len(keywords) = 0 \/ limit <= 0 \/ Len(filtered) = 0
        THEN [err |-> FALSE, results |-> {<<>>}]
        ELSE IF fault THEN [err |-> TRUE, results |-> {<<>>}]
        ELSE [err |-> FALSE,
              results |->
                  UNION {IF Len(l) = 0 /\ Len(filtered) > 1
                         THEN KeywordSelect(tbl, filtered, FALSE, limit)
                         ELSE {l} : l \in first}]

\* SearchHistoryByKeywords(w.db, keywords, 10)
ContextLimit == 10

\* gatherHistoryContext(query): the command lists it can return; nil when
\* there is no keyword and when the search fails.
gatherHistoryContext(tbl, query, fault) ==
    LET keywords == extractKeywords(query)
        r        == SearchHistoryByKeywords(tbl, keywords, ContextLimit, fault)
    IN  IF Len(keywords) = 0 \/ r.err THEN {<<>>}
        ELSE {[i \in 1..Len(l) |-> l[i].Command] : l \in r.results}

\* The characters of the texts extractKeywords is called with: letters of
\* both cases that spell the stop words "a" and "at", a blank, a hyphen.
KeywordAlphabet == {"a", "A", "T", " ", "-"}

\* A call of extractKeywords(query).
CallExtractKeywords ==
    \E query \in SeqsUpTo(KeywordAlphabet, MaxText) :
        /\ ctx.op = "none"
        /\ ctx' = [NoContext EXCEPT !.op = "extractKeywords", !.query = query,
                                    !.keywords = extractKeywords(query)]
        /\ UNCHANGED <<parseVars, storeVars, collectVars, searchVars, cacheVars,
                       gen, cli, collectors>>

NextKeywords == CallExtractKeywords

SpecKeywords == InitCache /\ [][NextKeywords]_vars

\* The queries gatherHistoryContext is called with: two keywords that are
\* kept, a keyword of two letters beside one of three, and one keyword that
\* comes twice beside a stop word.
ContextQueries ==
    { <<"g", "a", "s", " ", "t", "a", "g">>,
      <<"a", "g", " ", "g", "a", "s">>,
      <<"G", "a", "s", " ", "a", "t", " ", "g", "a", "s">> }

\* The records of the history the context is searched in: one text comes
\* twice.
ContextCommands ==
    { NewCommand("/h/a", Float64OfInt(1), <<"g", "a", "s">>, 0),
      NewCommand("/h/a", Float64OfInt(2), <<"g", "a", "s">>, 0),
      NewCommand("/h/a", Float64OfInt(3), <<"t", "a", "g">>, 0),
      NewCommand("/h/a", Float64OfInt(4), <<"g", "a", "s", " ", "t", "a", "g">>, 0),
      NewCommand("/h/a", Float64OfInt(5), <<"a", "g", " ", "g", "a", "s">>, 0) }

\* A record is inserted before any context is gathered.
ContextInsert ==
    \E cmd \in ContextCommands :
        /\ ctx.op = "none"
        /\ InsertCommandsOf(<<cmd>>, NoFault)

\* A call of w.gatherHistoryContext(query); fault: the search fails.
CallGatherHistoryContext ==
    \E query \in ContextQueries, fault \in BOOLEAN :
    \E context \in gatherHistoryContext(rows, query, fault) :
        /\ ctx.op = "none"
        /\ ctx' = [op |-> "gatherHistoryContext", query |-> query,
                   keywords |-> extractKeywords(query), fault |-> fault,
                   pre |-> rows, context |-> context]
        /\ UNCHANGED <<parseVars, storeVars, collectVars, searchVars, cacheVars,
                       gen, cli, collectors>>

NextContext == ContextInsert \/ CallGatherHistoryContext

SpecContext == InitCache /\ [][NextContext]_vars

\* --------------------------------------------------- SpecConcurrent actions

\* The history files under ~/.histories, in the order expandHistoryPaths
\* lists them: file n holds one record of second n.
HookFile(n) ==
    [path    |-> <<"/h/a", "/h/b", "/h/c", "/h/d">>[n],
     content |-> << <<":", " ", <<"1", "2", "3", "4">>[n], ":", "0", ";", "a">> >>]

\* The records a run parses from file n.
HookParsed(n) == ParseHistoryFile(HookFile(n).path, HookFile(n).content).Commands

\* Run r is at a file, with no transaction open.
AtFile(r) ==
    /\ ~collectors.run[r].done
    /\ ~collectors.run[r].intx
    /\ collectors.run[r].file <= MaxFiles

\* The first Exec of the transaction of run r on its file finds the store
\* unlocked: the transaction takes the write lock.
TxBegin(r) ==
    /\ AtFile(r)
    /\ collectors.lock = 0
    /\ collectors' = [collectors EXCEPT !.lock = r, !.run[r].intx = TRUE]
    /\ UNCHANGED <<parseVars, storeVars, collectVars, searchVars, cacheVars,
                   gen, cli, ctx>>

\* The first Exec of the transaction of run r finds the store locked by the
\* other run: InsertCommands rolls back and returns the error,
\* InsertCommandsBatch returns it, and runCollect goes on with its next file.
TxBusy(r) ==
    /\ AtFile(r)
    /\ collectors.lock \notin {0, r}
    /\ collectors' = [collectors EXCEPT
                         !.run[r].failed = @ \cup {collectors.run[r].file},
                         !.run[r].file = @ + 1]
    /\ UNCHANGED <<parseVars, storeVars, collectVars, searchVars, cacheVars,
                   gen, cli, ctx>>

\* The transaction of run r commits: its inserts take effect at once, the
\* lock is released, the counts are added to the totals of the run.
TxCommit(r) ==
    /\ collectors.run[r].intx
    /\ LET res == InsertCommandsBatch(DB, HookParsed(collectors.run[r].file),
                                      CollectBatchSize, NoFault)
       IN  /\ rows' = res.rows
           /\ fts' = res.fts
           /\ collectors' = [collectors EXCEPT
                                !.lock = 0,
                                !.run[r].intx = FALSE,
                                !.run[r].inserted = @ + res.inserted,
                                !.run[r].ignored = @ + res.ignored,
                                !.run[r].file = @ + 1]
    /\ UNCHANGED <<parseVars, call, collectVars, searchVars, cacheVars,
                   gen, cli, ctx>>

\* Run r is past its last file: runCollect returns nil.
Finish(r) ==
    /\ ~collectors.run[r].done
    /\ collectors.run[r].file > MaxFiles
    /\ collectors' = [collectors EXCEPT !.run[r].done = TRUE]
    /\ UNCHANGED <<parseVars, storeVars, collectVars, searchVars, cacheVars,
                   gen, cli, ctx>>

NextConcurrent ==
    \E r \in 1..2 : TxBegin(r) \/ TxBusy(r) \/ TxCommit(r) \/ Finish(r)

SpecConcurrent == InitCache /\ [][NextConcurrent]_vars

\* ============================================================== claims

\* ------------------------------------------------------ claims, SpecStore

\* Positions of commands whose key is in pre or is the key of an earlier
\* position.
DuplicatePositions(pre, commands) ==
    {i \in 1..Len(commands) :
        \/ KeyIn(pre, commands[i])
        \/ \E j \in 1..(i - 1) : SameKey(commands[j], commands[i])}

\* The records of commands a store holding pre lacks, the first of each key.
NewRecords(pre, commands) ==
    {commands[i] : i \in (1..Len(commands)) \ DuplicatePositions(pre, commands)}

\* C1: after any sequence of InsertCommands / InsertCommandsBatch calls the
\* commands table holds at most one row per (source, timestamp), and a call
\* that meets no store error returns no error and counts as skipped exactly
\* the records whose key was already present (in the table or earlier in the
\* same list).
C1_UniqueKeySkipNoError ==
    /\ \A r1, r2 \in rows : SameKey(r1, r2) => r1 = r2
    /\ (call.op # "none" /\ call.fault = NoFault) =>
          /\ ~call.err
          /\ call.ignored = Cardinality(DuplicatePositions(call.pre, call.commands))

\* C1 witness: a call without store error whose list repeats a key with a
\* different text and also names a key already in the table.
C1_Witness ==
    /\ call.op = "InsertCommands"
    /\ call.fault = NoFault
    /\ ~call.err
    /\ Len(call.commands) = 2
    /\ SameKey(call.commands[1], call.commands[2])
    /\ call.commands[1] # call.commands[2]
    /\ KeyIn(call.pre, call.commands[1])
    /\ call.ignored = 2
    /\ Cardinality(rows) = 2

PairwiseDistinctKeys(commands) ==
    \A i, j \in 1..Len(commands) : SameKey(commands[i], commands[j]) => i = j

FreshBatch(pre, commands) ==
    /\ PairwiseDistinctKeys(commands)
    /\ \A i \in 1..Len(commands) : ~KeyIn(pre, commands[i])

\* C2: a successful InsertCommands returns inserted + skipped = length of the
\* list, with inserted the number of rows added; for a list of N distinct keys
\* none of which is stored it returns (N, 0), and the same call made again at
\* once returns (0, N) and leaves the table as the first call left it.
C2_Idempotent ==
    /\ (call.op = "InsertCommands" /\ ~call.err) =>
          /\ call.inserted + call.ignored = Len(call.commands)
          /\ call.inserted = Cardinality(rows) - Cardinality(call.pre)
    /\ (call.op = "InsertCommands" /\ ~call.err /\ ~call.repeat
          /\ FreshBatch(call.pre, call.commands)) =>
          /\ call.inserted = Len(call.commands)
          /\ call.ignored = 0
    /\ (call.repeat /\ ~call.err /\ FreshBatch(call.first.pre, call.commands)) =>
          /\ call.first.inserted = Len(call.commands)
          /\ call.first.ignored = 0
          /\ call.inserted = 0
          /\ call.ignored = Len(call.commands)
          /\ rows = call.pre

\* C2 witness: the repeated call of a list of two fresh keys has returned.
C2_Witness ==
    /\ call.repeat
    /\ ~call.err
    /\ FreshBatch(call.first.pre, call.commands)
    /\ Len(call.commands) = 2
    /\ call.first.inserted = 2
    /\ call.ignored = 2

\* C10 as claimed: whenever InsertCommands or InsertCommandsBatch returns an
\* error, the table is exactly what it was before the call.
C10_AllOrNothing ==
    call.err => rows = call.pre

\* The commands of the sub-batches before the one the fault is in.
CommittedPrefix(c) ==
    LET n == (c.fault[1] - 1) * EffectiveBatchSize(c.batchSize)
    IN  SubSeq(c.commands, 1, IF n > Len(c.commands) THEN Len(c.commands) ELSE n)

\* C10 amended: an InsertCommands that returns an error has added nothing and
\* reports (0, 0); an InsertCommandsBatch that returns an error has added
\* nothing of the failing sub-batch or of a later one, but the sub-batches
\* before it stay committed and the returned counts are theirs.
C10_AtomicPerTransaction ==
    call.err =>
        /\ call.op = "InsertCommands" =>
              /\ rows = call.pre
              /\ call.inserted = 0
              /\ call.ignored = 0
        /\ call.op = "InsertCommandsBatch" =>
              /\ rows = call.pre \cup NewRecords(call.pre, CommittedPrefix(call))
              /\ call.inserted = Cardinality(rows) - Cardinality(call.pre)
              /\ call.inserted + call.ignored = Len(CommittedPrefix(call))

\* C10 witness: InsertCommandsBatch failed in its second sub-batch, after a
\* record had been written inside the failing transaction, and the first
\* sub-batch's record is in the table.
C10_Witness ==
    /\ call.op = "InsertCommandsBatch"
    /\ call.err
    /\ call.fault[1] = 2
    /\ call.inserted = 1
    /\ rows # call.pre

\* C11: an InsertCommandsBatch call that meets no store error, whatever its
\* sub-batch size (0 standing for 100), leaves the table and returns the
\* counts that one InsertCommands call over the whole list leaves and returns:
\* the table gains the first record of each key it lacked, in list order.
C11_BatchEqualsSingle ==
    (call.op = "InsertCommandsBatch" /\ call.fault = NoFault) =>
        LET single == InsertCommands([rows |-> call.pre, fts |-> {}],
                                     call.commands, 0)
        IN  /\ ~call.err
            /\ rows = single.rows
            /\ call.inserted = single.inserted
            /\ call.ignored = single.ignored
            /\ rows = call.pre \cup NewRecords(call.pre, call.commands)
            /\ call.inserted = Cardinality(NewRecords(call.pre, call.commands))

\* C11 witness: a list of two records of one key and different texts went
\* through two sub-batches of size 1; the second was skipped against the first.
C11_Witness ==
    /\ call.op = "InsertCommandsBatch"
    /\ call.fault = NoFault
    /\ call.batchSize = 1
    /\ Len(call.commands) = 2
    /\ SameKey(call.commands[1], call.commands[2])
    /\ call.commands[1] # call.commands[2]
    /\ ~KeyIn(call.pre, call.commands[1])
    /\ call.inserted = 1
    /\ call.ignored = 1
    /\ call.commands[1] \in rows

\* ------------------------------------------------------ claims, SpecParse

AllDigits(s) == Len(s) > 0 /\ \A i \in 1..Len(s) : IsDigit(s[i])

\* The header pattern of the history format:
\* ": " <seconds> ":" <duration> ";" <first line of the command>.
IsHeaderLine(line) ==
    /\ HasPrefix(line, <<":", " ">>)
    /\ LET rest == SubSeq(line, 3, Len(line))
           semi == IndexOf(rest, ";")
       IN  /\ semi > 0
           /\ LET meta  == SubSeq(rest, 1, semi - 1)
                  colon == IndexOf(meta, ":")
              IN  /\ colon > 0
                  /\ AllDigits(SubSeq(meta, 1, colon - 1))
                  /\ AllDigits(SubSeq(meta, colon + 1, Len(meta)))

\* The text after the first ';' of a header line.
HeaderText(line) == SubSeq(line, IndexOf(line, ";") + 1, Len(line))

\* Header prefix present, header pattern not matched.
MalformedHeader(line) == HasPrefix(line, <<":", " ">>) /\ ~IsHeaderLine(line)

\* The joined text of each entry of the format: a header line opens an entry,
\* any other line continues the open entry after a newline, lines before the
\* first header belong to no entry.
RECURSIVE EntryTexts(_, _)
EntryTexts(lines, acc) ==
    IF lines = <<>> THEN acc
    ELSE IF IsHeaderLine(Head(lines))
    THEN EntryTexts(Tail(lines), Append(acc, HeaderText(Head(lines))))
    ELSE IF acc = <<>> THEN EntryTexts(Tail(lines), acc)
    ELSE EntryTexts(Tail(lines),
                    [acc EXCEPT ![Len(acc)] = (@ \o <<"\n">>) \o Head(lines)])

ExpectedTexts(lines) ==
    LET e == EntryTexts(lines, <<>>) IN [i \in 1..Len(e) |-> TrimSpace(e[i])]

\* C4: addSubsecondTimestamps returns the records in the same order with the
\* same source, text and duration, and record i gets seconds + k thousandths,
\* k being the number of earlier records of the file with the same integer
\* second, adjacent or not.
C4_SubsecondOffsets ==
    phase = "done" =>
        /\ Len(history) = Len(p.Commands)
        /\ \A i \in 1..Len(history) :
              LET raw == p.Commands[i]
                  k   == Cardinality({j \in 1..(i - 1) :
                                        p.Commands[j].Timestamp = raw.Timestamp})
              IN  /\ history[i].Timestamp = raw.Timestamp + k
                  /\ history[i].Command = raw.Command
                  /\ history[i].Duration = raw.Duration
                  /\ history[i].Source = raw.Source

\* C4 witness: three records with seconds 1, 2, 1; the third, not adjacent to
\* the first, has the offset of one thousandth.
C4_Witness ==
    /\ phase = "done"
    /\ Len(history) = 3
    /\ history[1].Timestamp = Milli
    /\ history[2].Timestamp = 2 * Milli
    /\ history[3].Timestamp = Milli + 1

\* C6 as claimed: a parsed file yields one record per header line, in file
\* order, each with the trimmed joined text of the header's text and the
\* non-header lines that follow it.
C6_OneRecordPerHeader ==
    phase = "done" =>
        [i \in 1..Len(history) |-> history[i].Command] = ExpectedTexts(file)

\* C8 as claimed: a line with the header prefix that does not match the header
\* pattern is appended to the open command as continuation, and is dropped
\* when no command is open; it emits nothing and opens nothing.
C8_MalformedIsContinuation ==
    [][(phase = "scan" /\ scanned' = scanned + 1
          /\ MalformedHeader(file[scanned + 1])) =>
        p' = IF p.hasCommand
             THEN [p EXCEPT !.currentCommand = (@ \o <<"\n">>) \o file[scanned + 1]]
             ELSE p]_vars

\* C9 as claimed: the parse of a file that can be opened and read never
\* returns an error.
C9_ParseNeverFails ==
    phase # "failed"

\* ---------------------------------------------------- claims, SpecCollect

\* The last collect run parsed its file and stored the commands.
Ingested == runs > 0 /\ ~last.parseErr /\ ~last.insertErr

\* No integer second occurs on more than 1000 commands.
WithinSecondLimit(cmds) ==
    \A i \in 1..Len(cmds) :
        Cardinality({j \in 1..Len(cmds) :
                        Int64OfFloat(cmds[j].Timestamp) =
                        Int64OfFloat(cmds[i].Timestamp)}) <= Milli

\* cur is prev, or prev followed by complete entries: the added part begins
\* with a header line and has no line with a malformed header.
AppendedOnly(prev, cur) ==
    /\ Len(cur) >= Len(prev)
    /\ SubSeq(cur, 1, Len(prev)) = prev
    /\ \A i \in (Len(prev) + 1)..Len(cur) :
          /\ ~MalformedHeader(cur[i])
          /\ i = Len(prev) + 1 => IsHeaderLine(cur[i])

\* C3 as claimed, in what it says of the store: when the file ingested before
\* is ingested again, unchanged or with complete entries appended, every entry
\* of the earlier content has the key it had and is skipped, every appended
\* entry is in the store after the run, and the rows stored before are still
\* there.
C3_ReingestStoresAppended ==
    (Ingested /\ last.hadPrev /\ AppendedOnly(last.prev, last.content)) =>
        LET old == ParseHistoryFile(last.source, last.prev).Commands
            new == last.parsed
        IN  /\ Len(old) <= Len(new)
            /\ \A i \in 1..Len(old) : SameKey(old[i], new[i])
            /\ last.ignored >= Len(old)
            /\ last.inserted + last.ignored = Len(new)
            /\ \A i \in (Len(old) + 1)..Len(new) : new[i] \in rows
            /\ last.pre \subseteq rows

C7_StoredTextIsEntryText ==
    Ingested =>
        \A i \in 1..Len(last.parsed) :
            \E r \in rows : /\ SameKey(r, last.parsed[i])
                            /\ r.Command = last.parsed[i].Command

\* ----------------------------------------------------- claims, SpecSearch

\* A free-text query as the claims read it: its words are the terms, and a
\* text matches when every term is a prefix of one of its tokens.
TextMatches(text, query) ==
    \A i \in 1..Len(Fields(query)) :
        \E tok \in FTSTokens(text) : HasPrefix(tok, ToLower(Fields(query)[i]))

\* The record passes every active filter of opts.
Qualifies(r, opts) ==
    /\ opts.Query # <<>> => TextMatches(r.Command, opts.Query)
    /\ opts.Since > 0 => r.Timestamp >= opts.Since
    /\ opts.Until > 0 => r.Timestamp <= opts.Until

Searched == search.op = "SearchCommands"

\* res lists n different stored records that pass the filters, newest first,
\* and no record left out is newer than one listed.
TopByTimestamp(res, opts, n) ==
    /\ Len(res) = n
    /\ \A i \in 1..Len(res) :
          \E r \in rows : Qualifies(r, opts) /\ SearchResult(r) = res[i]
    /\ \A i, j \in 1..Len(res) : res[i] = res[j] => i = j
    /\ \A i, j \in 1..Len(res) : i < j => res[i].Timestamp >= res[j].Timestamp
    /\ \A r \in rows :
          (Qualifies(r, opts) /\ \A i \in 1..Len(res) : res[i] # SearchResult(r))
              => \A i \in 1..Len(res) : res[i].Timestamp >= r.Timestamp

\* C12 as claimed: SearchCommands returns the min(limit, m) newest of the m
\* stored records that pass every active filter, newest first, a limit <= 0
\* standing for 500.
C12_SearchTopByTimestamp ==
    Searched =>
        LET m   == Cardinality({r \in rows : Qualifies(r, search.opts)})
            lim == IF search.opts.Limit <= 0 THEN 500 ELSE search.opts.Limit
        IN  /\ ~search.err
            /\ TopByTimestamp(search.results, search.opts,
                              IF lim < m THEN lim ELSE m)

\* C13 as claimed: every word of a free-text query gives one non-empty prefix
\* term of the match expression, the search succeeds, every record returned
\* matches all terms, and with no other filter cutting them off all records
\* that match all terms are returned.
C13_EveryWordOnePrefixTerm ==
    (Searched /\ search.opts.Query # <<>>) =>
        LET words == Fields(search.opts.Query)
            parts == Fields(buildFTSQuery(search.opts.Query))
        IN  /\ Len(parts) = Len(words)
            /\ \A i \in 1..Len(parts) :
                  Len(parts[i]) >= 2 /\ parts[i][Len(parts[i])] = "*"
            /\ ~search.err
            /\ \A i \in 1..Len(search.results) :
                  TextMatches(search.results[i].Command, search.opts.Query)
            /\ (search.opts.Limit <= 0 /\ search.opts.Since <= 0
                  /\ search.opts.Until <= 0) =>
                  \A r \in rows :
                      TextMatches(r.Command, search.opts.Query) =>
                          \E i \in 1..Len(search.results) :
                              search.results[i] = SearchResult(r)

\* The number of tokens of the text that a term of the query is a prefix of.
MatchQuality(text, query) ==
    Cardinality(
        {ij \in (1..Len(text)) \X (1..Len(text)) :
            /\ ij[1] <= ij[2]
            /\ \A k \in ij[1]..ij[2] : IsTokenChar(text[k])
            /\ (ij[1] = 1 \/ ~IsTokenChar(text[ij[1] - 1]))
            /\ (ij[2] = Len(text) \/ ~IsTokenChar(text[ij[2] + 1]))
            /\ \E i \in 1..Len(Fields(query)) :
                  HasPrefix(ToLower(SubSeq(text, ij[1], ij[2])),
                            ToLower(Fields(query)[i]))})

\* C14 as claimed: the results of a free-text query come best match first, and
\* newest first only among results of equal match quality.
C14_RankedByMatchQuality ==
    (Searched /\ ~search.err /\ search.opts.Query # <<>>) =>
        \A i, j \in 1..Len(search.results) :
            i < j =>
                LET qi == MatchQuality(search.results[i].Command, search.opts.Query)
                    qj == MatchQuality(search.results[j].Command, search.opts.Query)
                IN  qi > qj \/ (qi = qj /\ search.results[i].Timestamp >=
                                          search.results[j].Timestamp)

\* C14 amended: the results of a free-text query are ordered by descending
\* timestamp alone, whatever their match quality.
C14_FreeTextNewestFirst ==
    (Searched /\ ~search.err /\ search.opts.Query # <<>>) =>
        \A i, j \in 1..Len(search.results) :
            i < j => search.results[i].Timestamp >= search.results[j].Timestamp

\* C14 witness: a free-text search returned a newer record with one matching
\* token ahead of an older record with two.
C14_Witness ==
    /\ Searched
    /\ ~search.err
    /\ search.opts.Query # <<>>
    /\ Len(search.results) = 2
    /\ search.results[1].Timestamp > search.results[2].Timestamp
    /\ MatchQuality(search.results[1].Command, search.opts.Query) = 1
    /\ MatchQuality(search.results[2].Command, search.opts.Query) = 2

\* ------------------------------------------------------ claims, SpecIndex

\* The index entries the rows of the table call for: one per row, under its
\* rowid, with its current text.
IndexOfRows(table) == {[rowid |-> RowId(r), command |-> r.Command] : r \in table}

\* C15: after every committed and every rolled-back insert transaction, and
\* after every delete or update of a row, the text index holds an entry for
\* exactly the rows of the table, each with its current text.
C15_IndexInSync == fts = IndexOfRows(rows)

\* C15 witness: an insert call was rolled back over a table that is not empty,
\* among its records one whose key is stored with another text and one whose
\* key is not stored.
C15_Witness ==
    /\ call.op \in {"InsertCommands", "InsertCommandsBatch"}
    /\ call.err
    /\ rows # {}
    /\ rows = call.pre
    /\ \E i \in 1..Len(call.commands) :
          KeyIn(rows, call.commands[i]) /\ call.commands[i] \notin rows
    /\ \E i \in 1..Len(call.commands) : ~KeyIn(rows, call.commands[i])

\* ------------------------------------------------------ claims, SpecCache

\* The logged SetWizardCache calls whose query has the given key, in order.
RECURSIVE WithKey(_, _)
WithKey(log, normalized) ==
    IF log = <<>> THEN <<>>
    ELSE IF NormalizeQuery(log[1].query) = normalized
         THEN <<log[1]>> \o WithKey(Tail(log), normalized)
         ELSE WithKey(Tail(log), normalized)

\* The keys the queries of the model normalize to.
CacheKeys == {NormalizeQuery(q) : q \in CacheQueries}

\* What a lookup of q returns from the table when the statement succeeds.
Lookup(q) == GetWizardCache(cache, q, FALSE).entry

\* C17: every key of the cache is the trimmed lower-cased text of a query that
\* was set; no two entries have the same key; after SetWizardCache(q, c) a
\* lookup of any q' with the normalized form of q returns one entry with
\* command c, and a lookup of a q' whose normalized form is no stored key
\* returns none; a GetWizardCache call returns just that.
C17_NormalizedKeys ==
    /\ \A e \in cache :
          \E i \in 1..Len(sets) : e.QueryNormalized = NormalizeQuery(sets[i].query)
    /\ \A e1, e2 \in cache : e1.QueryNormalized = e2.QueryNormalized => e1 = e2
    /\ (cop.op = "SetWizardCache" /\ ~cop.err) =>
          \A q \in CacheQueries :
              /\ NormalizeQuery(q) = NormalizeQuery(cop.query) =>
                    /\ Cardinality(Lookup(q)) = 1
                    /\ \A e \in Lookup(q) : e.Command = cop.command
              /\ (\A e \in cache : e.QueryNormalized # NormalizeQuery(q)) =>
                    Lookup(q) = {}
    /\ (cop.op = "GetWizardCache" /\ ~cop.err) =>
          LET made == WithKey(sets, NormalizeQuery(cop.query))
          IN  /\ cop.found = Lookup(cop.query)
              /\ made = <<>> => cop.found = {}
              /\ made # <<>> =>
                    /\ Cardinality(cop.found) = 1
                    /\ \A e \in cop.found : e.Command = made[Len(made)].command

\* C17 witness: a lookup under one spelling returned the entry that was set
\* under another spelling of the same key, while another key is stored too.
C17_Witness ==
    /\ cop.op = "GetWizardCache"
    /\ ~cop.err
    /\ \E e \in cop.found :
          e.QueryOriginal # cop.query /\ e.QueryNormalized # cop.query
    /\ Cardinality(cache) = 2

\* C18: for every key, after k >= 1 successful SetWizardCache calls that
\* normalize to it with no clear or delete of it in between, its one entry has
\* run_count k, command and last_used of the last of these calls and
\* created_at of the first, whatever was set under other keys; a key with no
\* such call has no entry.
C18_RunCountAndTimes ==
    \A key \in CacheKeys :
        LET made == WithKey(sets, key)
        IN  IF made = <<>>
            THEN CacheRows(cache, key) = {}
            ELSE CacheRows(cache, key) =
                    {[QueryNormalized |-> key,
                      QueryOriginal |-> e.QueryOriginal,
                      Command |-> made[Len(made)].command,
                      RunCount |-> Len(made),
                      LastUsed |-> made[Len(made)].now,
                      CreatedAt |-> made[1].now] : e \in CacheRows(cache, key)}
                 /\ Cardinality(CacheRows(cache, key)) = 1

\* C18 witness: an entry set twice at two different times with two different
\* commands, next to an entry of another key.
C18_Witness ==
    /\ Cardinality(cache) = 2
    /\ \E e \in cache :
          /\ e.RunCount = 2
          /\ e.CreatedAt # e.LastUsed
          /\ \E i \in 1..Len(sets) :
                /\ NormalizeQuery(sets[i].query) = e.QueryNormalized
                /\ sets[i].command # e.Command

\* C19 as claimed: after SetWizardCache(q, c) the entry of the key has
\* original_query q, the literal text of this call, also when the entry
\* existed with another literal text.
C19_OriginalIsLatestLiteral ==
    (cop.op = "SetWizardCache" /\ ~cop.err) =>
        /\ Lookup(cop.query) # {}
        /\ \A e \in Lookup(cop.query) : e.QueryOriginal = cop.query

\* ----------------------------------------------------- claims, SpecWizard

Generated == gen.op = "Generate"

\* The entries the cache held, when Generate was called, under the key of the
\* query given to it.
EntryOf(reqQuery) == CacheRows(gen.pre, NormalizeQuery(TrimSpace(reqQuery)))

\* FromCache is true exactly when Source is "cache", and the only other
\* source is "llm".
SourceMatchesFlag ==
    \A r \in gen.resp :
        /\ r.Source \in {"cache", "llm"}
        /\ r.FromCache <=> r.Source = "cache"

C16_StoredRecordsImmutable ==
    [][/\ \A r \in rows : r \in rows'
       /\ (cop' # cop /\ cop'.op \in {"ClearWizardCache", "DeleteWizardCacheEntry"})
             => (rows' = rows /\ fts' = fts)
       /\ (search' # search \/ stats' # stats \/ cop' # cop)
             => (rows' = rows /\ fts' = fts)]_vars

\* C16 witness: after a collect run, an insert call that succeeded carried the
\* key of a stored row with other contents, and the table is what it was.
C16_Witness ==
    /\ runs > 0
    /\ call.op \in {"InsertCommands", "InsertCommandsBatch"}
    /\ ~call.err
    /\ call.pre # {}
    /\ rows = call.pre
    /\ \E i \in 1..Len(call.commands) :
          KeyIn(call.pre, call.commands[i]) /\ call.commands[i] \notin call.pre

\* C21: a Generate call whose lookup found nothing invokes the backend at most
\* once, for no longer than the timeout of the client; when that call fails,
\* times out or yields an empty command after cleaning, Generate returns an
\* error and no response; and no Generate call changes the cache.
C21_BackendOnceOrError ==
    [][gen' # gen =>
          /\ cache' = cache
          /\ gen'.calls <= 1
          /\ gen'.calls = 1 =>
                /\ gen'.cached = {}
                /\ gen'.completion.elapsed <= gen'.timeout
                /\ (gen'.completion.err
                      \/ parseResponse(gen'.completion.text) = <<>>) =>
                      /\ gen'.resp = {}
                      /\ gen'.err \in {"LLM generation failed",
                                       "LLM returned empty or invalid command"}
                /\ (~gen'.completion.err
                      /\ parseResponse(gen'.completion.text) # <<>>) =>
                      /\ gen'.err = ""
                      /\ gen'.resp = {[Command |-> parseResponse(gen'.completion.text),
                                       Source |-> "llm",
                                       Query |-> TrimSpace(gen'.query),
                                       FromCache |-> FALSE]}]_vars

\* C21 witness: over a cache that holds entries, Generate missed, called the
\* backend once, the call ran into the timeout and Generate returned the
\* generation failure.
C21_Witness ==
    /\ Generated
    /\ gen.pre # {}
    /\ gen.cached = {}
    /\ gen.calls = 1
    /\ gen.completion.err
    /\ gen.completion.elapsed = gen.timeout
    /\ gen.timeout < DefaultTimeout
    /\ gen.err = "LLM generation failed"
    /\ gen.resp = {}
    /\ cache = gen.pre

\* --------------------------------------------------------- claims, SpecCli

\* The steps of a run that reach the store or the backend.
StoreOrBackendSteps ==
    {i \in 1..Len(cli.trace) : cli.trace[i] # "Close"}

\* C22 as claimed: a wizard query that is empty, or empty after trimming, is
\* rejected with an error before the store is opened, the schema created, the
\* cache looked up or the history queried, and before any backend call.
C22_EmptyQueryBeforeStore ==
    (cli.op = "runWizard" /\ cli.mode = "generate" /\ TrimSpace(cli.query) = <<>>)
        => (cli.ret # "" /\ StoreOrBackendSteps = {} /\ cli.opened = 0)

\* The records a collect run parses from its i-th path.
ParsedOf(i) == ParseHistoryFile(cli.args[i].path, cli.args[i].content).Commands

\* The run got to open the store.
StoreOpened == \E i \in 1..Len(cli.trace) : cli.trace[i] = "CreateSchema"

\* C23 as claimed: when collect is given several paths and one of them is
\* missing or unreadable, that path is reported, and every readable file of
\* the others is still parsed and inserted.
C23_OtherFilesIngested ==
    (/\ cli.op = "runCollect"
     /\ Len(cli.args) > 1
     /\ \E i \in 1..Len(cli.args) : cli.args[i].kind \in {"missing", "unreadable"}
     /\ FirstMissing(cli.args) # 0 \/ (StoreOpened /\ cli.opened = cli.closed))
        => /\ \A i \in 1..Len(cli.args) :
                 cli.args[i].kind \in {"missing", "unreadable"} =>
                    \/ cli.ret # ""
                    \/ \E k \in 1..Len(cli.out) : cli.out[k][2] = cli.args[i].path
           /\ \A i \in 1..Len(cli.args) :
                 (cli.args[i].kind = "file" /\ cli.faults[i] = NoFault) =>
                    \A k \in 1..Len(ParsedOf(i)) : KeyIn(rows, ParsedOf(i)[k])

\* C24 as claimed: a store error raised during an operation is returned to
\* the caller: an insert failure during collect makes runCollect return an
\* error, also when quiet, and a failed cache lookup makes the wizard fail
\* instead of going on as after a miss.
C24_StoreErrorsReturned ==
    (cli.op # "none" /\ cli.storeErr) => cli.ret # ""

\* C25 as claimed: every store handle opened for an operation is closed
\* before the operation returns, also when InitDB fails after opening it.
C25_HandlesClosed ==
    cli.op # "none" => cli.closed = cli.opened

\* A maximal run of characters of the class in s: from i to j.
IsRun(s, i, j) ==
    /\ i <= j
    /\ \A k \in i..j : s[k] \in WordChars
    /\ i = 1 \/ s[i - 1] \notin WordChars
    /\ j = Len(s) \/ s[j + 1] \notin WordChars

\* Where the maximal run w first starts in s.
FirstAt(s, w) ==
    CHOOSE i \in 1..Len(s) :
        /\ \E j \in i..Len(s) : IsRun(s, i, j) /\ SubSeq(s, i, j) = w
        /\ \A k \in 1..(i - 1) :
              ~\E j \in k..Len(s) : IsRun(s, k, j) /\ SubSeq(s, k, j) = w

\* The tokens of a text: its lower-cased maximal runs of length at least 2
\* that are no stop words.
TokensOf(text) ==
    LET s == ToLower(text)
    IN  {w \in {SubSeq(s, r[1], r[2]) :
                    r \in {x \in (1..Len(s)) \X (1..Len(s)) : IsRun(s, x[1], x[2])}} :
            Len(w) >= 2 /\ w \notin StopWords}

\* C26: extractKeywords returns the lower-cased maximal runs of characters
\* of [a-zA-Z0-9_.-] that have length at least 2 and are no stop words, each
\* once, in the order of their first occurrence.
C26_Keywords ==
    ctx.op = "extractKeywords" =>
        LET kw == ctx.keywords
        IN  /\ {kw[i] : i \in 1..Len(kw)} = TokensOf(ctx.query)
            /\ \A i, j \in 1..Len(kw) : kw[i] = kw[j] => i = j
            /\ \A i, j \in 1..Len(kw) :
                  i < j => FirstAt(ToLower(ctx.query), kw[i])
                             < FirstAt(ToLower(ctx.query), kw[j])

\* A text of two runs that differ in case only: one keyword is returned.
C26_Witness ==
    /\ ctx.op = "extractKeywords"
    /\ ctx.query = <<"T", "a", " ", "T", "A">>
    /\ ctx.keywords = << <<"t", "a">> >>

\* strings.Contains
Contains(s, sub) ==
    \E i \in 1..(Len(s) - Len(sub) + 1) : SubSeq(s, i, i + Len(sub) - 1) = sub

\* The command contains every keyword, at least one keyword.
HasAll(command, keywords) ==
    \A k \in 1..Len(keywords) : Contains(command, keywords[k])

HasAny(command, keywords) ==
    \E k \in 1..Len(keywords) : Contains(command, keywords[k])

\* C27 as claimed: the history context holds at most ten commands, pairwise
\* distinct; when some stored command contains every keyword returned by
\* extractKeywords, every context command contains them all, and only when
\* none does the context holds commands that contain at least one keyword.
C27_ContextMatchesKeywords ==
    (ctx.op = "gatherHistoryContext" /\ ~ctx.fault) =>
        LET context  == ctx.context
            keywords == extractKeywords(ctx.query)
        IN  /\ Len(context) <= 10
            /\ \A i, j \in 1..Len(context) : context[i] = context[j] => i = j
            /\ IF \E r \in ctx.pre : HasAll(r.Command, keywords)
               THEN \A i \in 1..Len(context) : HasAll(context[i], keywords)
               ELSE \A i \in 1..Len(context) : HasAny(context[i], keywords)

\* C28 as claimed: when the selection UI returns a record search sent, the
\* command search prints is the full command text of that record, tabs and
\* line breaks included; when the selection is cancelled or empty nothing is
\* printed and the operation succeeds.
C28_PrintsSelectedCommand ==
    (cli.op = "runSearch" /\ cli.mode \in {"cancel", "empty", "select"}) =>
        /\ cli.ret = ""
        /\ cli.out = IF cli.mode = "select"
                     THEN <<cli.args[cli.pick].Command>>
                     ELSE <<>>

\* The line has the header prefix and splits at ';' and ':' into seconds,
\* duration and text: it starts the text of a command.
OpensCommand(line) ==
    /\ HasPrefix(line, <<":", " ">>)
    /\ Len(SplitN2(SubSeq(line, 3, Len(line)), ";")) = 2
    /\ Len(SplitN2(SplitN2(SubSeq(line, 3, Len(line)), ";")[1], ":")) = 2

\* The seconds and the duration written in a line that opens a command.
WrittenSeconds(line) ==
    ParseInt(SplitN2(SplitN2(SubSeq(line, 3, Len(line)), ";")[1], ":")[1])

WrittenDuration(line) ==
    ParseInt(SplitN2(SplitN2(SubSeq(line, 3, Len(line)), ";")[1], ":")[2])

\* For each record emitted from lines[k..] and at the end of the file, the
\* number of the line that opened its text, 0 when its text was started by a
\* line that is no header. opener: the line that opened the text in the
\* buffer of st.
RECURSIVE OpenersFrom(_, _, _, _, _)
OpenersFrom(st, opener, acc, lines, k) ==
    IF k > Len(lines)
    THEN IF Len(EmitOpen(st, AbsPathParse).Commands) > Len(st.Commands)
         THEN Append(acc, opener) ELSE acc
    ELSE LET next    == ScanLine(st, AbsPathParse, lines[k])
             emitted == Len(next.Commands) > Len(st.Commands)
         IN  OpenersFrom(next,
                         IF OpensCommand(lines[k]) THEN k
                         ELSE IF emitted THEN 0 ELSE opener,
                         IF emitted THEN Append(acc, opener) ELSE acc,
                         lines, k + 1)

\* C29 as claimed: every record ParseHistoryFile emits has a text that is
\* not empty, and its seconds and its duration are the values written in the
\* header line that opened it.
C29_RecordsCarryTheirHeader ==
    phase = "done" =>
        LET openers == OpenersFrom(ParserStart, 0, <<>>, file, 1)
        IN  \A i \in 1..Len(history) :
                /\ history[i].Command # <<>>
                /\ openers[i] # 0
                /\ WrittenSeconds(file[openers[i]]).ok
                /\ WrittenSeconds(file[openers[i]]).val
                       = Int64OfFloat(history[i].Timestamp)
                /\ WrittenDuration(file[openers[i]]).ok
                /\ WrittenDuration(file[openers[i]]).val = history[i].Duration

\* C30 as claimed: once two collect runs over the same files against one
\* store have both finished, every record parsed from the files is in the
\* store, once, and the inserted counts of the two runs sum to the number of
\* records added.
C30_ConcurrentRunsIngestAll ==
    (collectors.run[1].done /\ collectors.run[2].done) =>
        /\ \A n \in 1..MaxFiles : \A k \in 1..Len(HookParsed(n)) :
              Cardinality({row \in rows : SameKey(row, HookParsed(n)[k])}) = 1
        /\ collectors.run[1].inserted + collectors.run[2].inserted
              = Cardinality(rows)

====
